---- MODULE Spec2Model ----
(***************************************************************************)
(* State-machine model of the browser scripts of the cryptocurrency        *)
(* trading assistant (static/js/dashboard.js: the dashboard page, the      *)
(* mobile page and the news page).  Every page is one event loop: an       *)
(* action of the model is one event handler or one continuation of an      *)
(* async function, run to its next await.                                  *)
(***************************************************************************)
EXTENDS Integers, Sequences, FiniteSets, Bags, TLC

VARIABLES
    (* ---- mobile page (MobileCryptoApp) ---- *)
    hidden,               \* document.hidden
    mobileCryptoApp,      \* window.mobileCryptoApp has been constructed
    priceUpdateInterval,  \* this.priceUpdateInterval: 0 (null) or an interval handle
    liveIntervals,        \* handles of the intervals that are active in the browser
    jobs,                 \* the async call trees in flight on the mobile page (a bag)
    mobileDisplay,        \* the price cards: crypto -> [price, change]
    mobileNews,           \* what the #mobile-news container shows
    toasts,               \* the toast elements attached to document.body
    paused,               \* history: the last visibilitychange handled was "hidden"
    lastFetch,            \* history: the last completed fetchCryptoPrice call
    lastOp,               \* history: the handler that ran last
    alerts,               \* this.alerts, when it is an array: its elements
    alertsType,           \* what this.alerts is: "array", "null" or "object"
    storage,              \* localStorage['crypto-mobile-alerts']
    lastWriteOk,          \* history: no localStorage.setItem has thrown since the
                          \* alerts were last loaded or written
    (* ---- dashboard page (CryptoDashboard) ---- *)
    dashApp,              \* how far CryptoDashboard.init() has run
    updateInterval,       \* this.updateInterval, in ms
    dashIntervals,        \* the intervals active on the dashboard page, oldest first
    dashJobs,             \* the async call trees in flight on the dashboard page
    dashDisplay,          \* the price cards: crypto -> [price, change]
    dashNews,             \* what the #crypto-news container shows
    notifications,        \* the notification elements attached to document.body
    dashSettings,         \* localStorage['dashboard-settings'].updateFrequency
    unhandled,            \* history: a promise was rejected with no handler
    (* ---- texts the pages turn into structure ---- *)
    quickAnalysis,        \* dashboard: the text displayQuickAnalysisResults was
                          \* called with and the metrics it rendered
    mobileAnalysis,       \* mobile: the text displayMobileAnalysisResults was
                          \* called with and the metrics it rendered
    detailedAnalysis,     \* dashboard: the text displayDetailedAnalysisResults was
                          \* called with and the sections it rendered
    enhancedNews,         \* news page: the item enhanceNewsData handled last
    (* ---- news page (CryptoNewsApp) ---- *)
    cryptoNewsApp,        \* window.cryptoNewsApp has been constructed
    newsData,             \* this.newsData
    filteredNews,         \* this.filteredNews
    isLoading,            \* this.isLoading
    newsJobs,             \* the loadNews calls in flight, oldest first: the await
                          \* each one is suspended at
    newsFilters,          \* the values of #categoryFilter, #sourceFilter, #timeFilter
    newsContainer,        \* what the #newsContainer element shows
    (* ---- analysis page (CryptoTradingApp) ---- *)
    cryptoApp,            \* window.cryptoApp has been constructed
    currentAnalysis,      \* this.currentAnalysis (NoText: null)
    analysisResults,      \* what the #analysisResults element shows
    analysisStatus,       \* what the #analysisStatus badge shows
    exportShown,          \* the #exportOptions element is shown
    analysisJobs,         \* the runAnalysis calls in flight, oldest first
    issued,               \* history: the number of analysis requests issued
    displayed,            \* history: the requests whose analysis was displayed
    errorAlerts,          \* the error alerts showError has put into <main>
    systemStatus          \* the first status badge: as served, or offline

mobileVars == <<hidden, mobileCryptoApp, priceUpdateInterval, liveIntervals,
                jobs, mobileDisplay, mobileNews, toasts, paused,
                lastFetch, lastOp>>
alertVars == <<alerts, alertsType, storage, lastWriteOk>>
dashVars == <<dashApp, updateInterval, dashIntervals, dashJobs, dashDisplay, dashNews,
              notifications, dashSettings, unhandled>>
textVars == <<quickAnalysis, mobileAnalysis, detailedAnalysis, enhancedNews>>
newsVars == <<cryptoNewsApp, newsData, filteredNews, isLoading, newsJobs, newsFilters,
              newsContainer>>
tradeVars == <<cryptoApp, currentAnalysis, analysisResults, analysisStatus, exportShown,
               analysisJobs, issued, displayed, errorAlerts, systemStatus>>
pageVars == <<newsVars, tradeVars>>
vars == <<mobileVars, alertVars, dashVars, textVars, pageVars>>

(***************************************************************************)
(* Bounds of the model.                                                    *)
(***************************************************************************)
MaxJobs == 2       \* async call trees in flight at once
MaxToasts == 2     \* toast elements attached at once
MaxHandles == 2    \* intervals active at once
MaxSaves == 1      \* saves of the dashboard settings per page load
MaxAlerts == 2     \* alerts in the list
MaxDelay == 1000   \* ms that pass at most between two steps of the timed model
MaxTextLen == 4    \* characters of an analysis text
MaxAnalyses == 3   \* analysis requests issued, and error alerts shown at once

(***************************************************************************)
(* JavaScript values that flow through the price path.                     *)
(***************************************************************************)
Num(n) == [t |-> "num", v |-> n]
Undefined == [t |-> "undefined", v |-> 0]
Null == [t |-> "null", v |-> 0]
Initial == [t |-> "initial", v |-> 0]     \* markup as served, never written
Skeleton == [t |-> "skeleton", v |-> 0]   \* the loading-skeleton placeholder

\* ToBoolean of a value of the price path
Truthy(x) == x.t = "num" /\ x.v # 0

(***************************************************************************)
(* What the network can answer.  kind: "ok" (2xx, body parsed),            *)
(* "http_error" (non-2xx), "reject" (fetch rejects), "bad_body" (2xx, but  *)
(* response.json() rejects).                                               *)
(***************************************************************************)
FailureKinds == {"http_error", "reject", "bad_body"}
Failure(k) == [kind |-> k, price |-> Undefined, change |-> Undefined]
Ok(p, c) == [kind |-> "ok", price |-> p, change |-> c]
NoOutcome == [kind |-> "none", price |-> Undefined, change |-> Undefined]

\* bodies of GET /api/crypto-price/{id}: {price_usd, price_change_24h}
PrimaryOutcomes ==
    {Ok(Num(50000), Num(25)), Ok(Num(51000), Null)} \cup {Failure(k) : k \in FailureKinds}

\* bodies of the public endpoint: {[id]: {usd, usd_24h_change}}; an answer
\* without an entry for the id gives undefined for both fields
FallbackOutcomes ==
    {Ok(Num(49000), Num(-10)), Ok(Undefined, Undefined)} \cup {Failure(k) : k \in FailureKinds}

NewsOutcomes == {"ok", "http_error", "reject"}

(***************************************************************************)
(* MobileCryptoApp: the price path.                                        *)
(***************************************************************************)
\* loadPriceData: const cryptos = ['bitcoin', 'ethereum', 'cardano']
MobileCryptos == <<"bitcoin", "ethereum", "cardano">>

\* What fetchCryptoPrice returns: null, or an object with the two fields the
\* code sets.  The object carries no other property.
NullResult == [isNull |-> TRUE, price_usd |-> Undefined, price_change_24h |-> Undefined]
Quote(p, c) == [isNull |-> FALSE, price_usd |-> p, price_change_24h |-> c]

\* fetchCryptoPrice, first try block: the primary answer decides whether the
\* function returns (TRUE) or falls through to the fallback request (FALSE)
PrimaryReturns(o) == o.kind = "ok"

\* fetchCryptoPrice, `return await response.json()`
PrimaryResult(o) == Quote(o.price, o.change)

\* fetchCryptoPrice, second try block: the object built from data[cryptoId],
\* or the final `return null`
FallbackResult(o) ==
    IF o.kind = "ok" THEN Quote(o.price, o.change) ELSE NullResult

\* reading quote.tier off a returned object
QuoteTier(q) == IF "tier" \in DOMAIN q THEN q.tier ELSE "undefined"

\* updatePriceCard throws a TypeError at change.toFixed when price_change_24h
\* is neither undefined nor a number
UpdatePriceCardThrows(data) ==
    data.price_change_24h.t \notin {"undefined", "num"}

\* updatePriceCard: the price element is written when price_usd is truthy,
\* the change element when price_change_24h !== undefined
UpdatePriceCard(card, data) ==
    [price |-> IF Truthy(data.price_usd) THEN data.price_usd ELSE card.price,
     change |-> IF data.price_change_24h.t = "num"
                THEN data.price_change_24h ELSE card.change]

\* showSkeletonPrice: both elements show the loading skeleton
ShowSkeletonPrice(card) == [price |-> Skeleton, change |-> Skeleton]

CardAfterFetchUnlessHidden(card, data) ==
    IF data.isNull \/ hidden THEN card
    ELSE IF UpdatePriceCardThrows(data) THEN ShowSkeletonPrice(card)
    ELSE UpdatePriceCard(card, data)

\* loadPriceData, the body of one loop round once fetchCryptoPrice returned
\* `data`: the card of the crypto afterwards
CardAfterFetch(card, data) ==
    IF data.isNull THEN card
    ELSE IF UpdatePriceCardThrows(data) THEN ShowSkeletonPrice(card)
    ELSE UpdatePriceCard(card, data)

(***************************************************************************)
(* Toasts (showToast): an element appended to document.body, a 3000 ms     *)
(* timer that starts the slide-up animation and a 300 ms timer that        *)
(* removes the element.                                                    *)
(***************************************************************************)
ToastTypes == {"info", "success", "warning", "error"}
\* a toast or notification element and its timers.  phase: "shown" (attached,
\* the auto-remove timer pending), "fading" (attached, the exit animation
\* running and the 300 ms timer pending), "dismissed" (detached by its close
\* button, the auto-remove timer still pending), "dismissedFading" (detached
\* by its close button during the exit animation, the 300 ms timer still
\* pending).  age: ms since the element was created.
Toast(type) == [type |-> type, phase |-> "shown", age |-> 0]
ShowToast(ts, type) == Append(ts, Toast(type))

ToastTtl == 3000           \* showToast: setTimeout(..., 3000)
ToastExit == 300           \* showToast: setTimeout(() => toast.remove(), 300)
NotificationTtl == 5000    \* showNotification: setTimeout(..., 5000)
NotificationExit == 300    \* showNotification: setTimeout(() => notification.remove(), 300)

\* the element is attached to document.body
IsAttached(t) == t.phase \in {"shown", "fading"}
Attached(ts) == SelectSeq(ts, IsAttached)

\* the age at which the pending timer of an element fires
Deadline(t, ttl, exit) ==
    IF t.phase \in {"shown", "dismissed"} THEN ttl ELSE ttl + exit
ToastDue(t) == t.age >= Deadline(t, ToastTtl, ToastExit)
NotificationDue(t) == t.age >= Deadline(t, NotificationTtl, NotificationExit)

\* the close button of an element: onclick="this.parentElement.remove()"
Dismissed(t) ==
    [t EXCEPT !.phase = IF @ = "shown" THEN "dismissed" ELSE "dismissedFading"]

\* ms until the next timer of ts fires, `most` when that is later
UntilDue(ts, ttl, exit, most) ==
    LET left == {Deadline(ts[i], ttl, exit) - ts[i].age : i \in 1..Len(ts)}
                  \cup {most}
    IN  CHOOSE m \in left : \A x \in left : m <= x

Aged(ts, d) == [i \in 1..Len(ts) |-> [ts[i] EXCEPT !.age = @ + d]]

ErrorToasts(ts) == Cardinality({i \in 1..Len(ts) : ts[i].type = "error"})

\* mutant of RemoveAt: the first element goes, whichever was meant
RemoveFirst(seq, i) == Tail(seq)

RemoveAt(seq, i) == SubSeq(seq, 1, i - 1) \o SubSeq(seq, i + 1, Len(seq))

(***************************************************************************)
(* Async call trees of the mobile page.  root: "init" (loadInitialData     *)
(* called by init), "refresh" (refreshData), "tick" (loadPriceData called  *)
(* by the interval), "news" (loadNews called by the refresh-news button).  *)
(* pi: index into MobileCryptos of the fetchCryptoPrice call outstanding,  *)
(* Len + 1 once loadPriceData returned, 0 when the tree has no             *)
(* loadPriceData.  stage: the request of that call that is outstanding.    *)
(* primary: what the primary endpoint answered to that call, once it has.  *)
(* news: the state of the tree's loadNews call.                            *)
(***************************************************************************)
PriceDone == Len(MobileCryptos) + 1

Job(root, withPrice, withNews) ==
    [root |-> root,
     pi |-> IF withPrice THEN 1 ELSE 0,
     stage |-> IF withPrice THEN "primary" ELSE "none",
     primary |-> NoOutcome,
     news |-> IF withNews THEN "fetching" ELSE "none"]

\* loadInitialData: Promise.all([loadPriceData(), loadNews(), loadAlertStatus()])
LoadInitialData(root) == Job(root, TRUE, TRUE)

JobSettled(j) == j.pi \in {0, PriceDone} /\ j.news \in {"none", "done"}

\* the record kept of a completed fetch: the requests it issued in order,
\* what each endpoint answered and what the call returned
Fetched(app, crypto, requests, primary, fallback, result, thrown) ==
    [app |-> app, crypto |-> crypto, requests |-> requests, primary |-> primary,
     fallback |-> fallback, result |-> result, thrown |-> thrown]

NoFetch == Fetched("none", "none", <<>>, NoOutcome, NoOutcome, NullResult, FALSE)

MobileInit ==
    /\ mobileCryptoApp = FALSE
    /\ priceUpdateInterval = 0
    /\ liveIntervals = {}
    /\ jobs = EmptyBag
    /\ mobileDisplay = [c \in {MobileCryptos[i] : i \in 1..Len(MobileCryptos)} |->
                            [price |-> Initial, change |-> Initial]]
    /\ mobileNews = "initial"
    /\ toasts = <<>>
    /\ paused = FALSE
    /\ lastFetch = NoFetch
    /\ lastOp = "none"

(***************************************************************************)
(* Alerts of the mobile page (loadAlerts, saveAlerts, saveAlert).          *)
(***************************************************************************)
\* localStorage['crypto-mobile-alerts']: absent, or a string that is the
\* JSON text of a list of alerts
Absent == [t |-> "absent", items |-> <<>>]
JsonList(items) == [t |-> "list", items |-> items]
\* other strings the key can hold: the empty string, a string JSON.parse
\* throws on, the JSON texts 'null' and '{}'
EmptyString == [t |-> "empty", items |-> <<>>]
Unparseable == [t |-> "unparseable", items |-> <<>>]
JsonNull == [t |-> "null", items |-> <<>>]
JsonObject == [t |-> "object", items |-> <<>>]
ForeignContents == {Absent, EmptyString, Unparseable, JsonNull, JsonObject}

\* JSON.stringify of one alert: the Date in `created` becomes a string
StringifyAlert(a) == [a EXCEPT !.created = [t |-> "string", ms |-> a.created.ms]]
\* JSON.parse of one stored alert: a string stays a string
ParseAlert(a) == a

\* JSON.stringify / JSON.parse of the array, element by element
StringifyItems(items) == [i \in 1..Len(items) |-> StringifyAlert(items[i])]
ParseItems(items) == [i \in 1..Len(items) |-> ParseAlert(items[i])]

\* JSON.stringify(this.alerts)
Stringify(items) == JsonList(StringifyItems(items))

\* loadAlerts: saved ? JSON.parse(saved) : [], and [] when JSON.parse throws;
\* the elements of the value returned, when it is an array
LoadAlerts(st) ==
    IF st.t = "list" THEN ParseItems(st.items) ELSE <<>>

\* loadAlerts: what the value returned is; JSON.parse('null') is null and
\* JSON.parse('{}') is an object, and both are returned as they are
LoadAlertsType(st) ==
    CASE st.t = "null" -> "null"
      [] st.t = "object" -> "object"
      [] OTHER -> "array"

AlertInit ==
    /\ alerts = <<>>
    /\ alertsType = "array"
    /\ storage = Absent
    /\ lastWriteOk = TRUE

(***************************************************************************)
(* Handlers of the mobile page.                                            *)
(***************************************************************************)
\* setInterval hands out a handle that no live interval has and that differs
\* from every handle the page still holds
NewHandle ==
    CHOOSE h \in 1..(MaxHandles + 1) : h \notin liveIntervals \cup {priceUpdateInterval}

\* mutant of StartPriceUpdates: a handle is stored but no interval is started
StartPriceUpdatesNoInterval ==
    /\ Cardinality(liveIntervals) < MaxHandles
    /\ priceUpdateInterval' = NewHandle
    /\ UNCHANGED liveIntervals

\* startPriceUpdates: this.priceUpdateInterval = setInterval(..., 30000)
StartPriceUpdates ==
    /\ Cardinality(liveIntervals) < MaxHandles
    /\ priceUpdateInterval' = NewHandle
    /\ liveIntervals' = liveIntervals \cup {NewHandle}

\* refreshData up to its await: the info toast and loadInitialData()
RefreshData(ts) ==
    /\ BagCardinality(jobs) < MaxJobs
    /\ Len(ts) < MaxToasts
    /\ toasts' = ShowToast(ts, "info")
    /\ jobs' = jobs (+) SetToBag({LoadInitialData("refresh")})

\* DOMContentLoaded: new MobileCryptoApp(): the constructor and init()
DOMContentLoaded ==
    /\ ~mobileCryptoApp
    /\ mobileCryptoApp' = TRUE
    /\ alerts' = LoadAlerts(storage)
    /\ alertsType' = LoadAlertsType(storage)
    /\ lastWriteOk' = TRUE
    /\ jobs' = jobs (+) SetToBag({LoadInitialData("init")})
    /\ StartPriceUpdates
    /\ lastOp' = "DOMContentLoaded"
    /\ UNCHANGED <<hidden, mobileDisplay, mobileNews, toasts, paused, lastFetch, storage, dashVars, textVars, pageVars>>

\* visibilitychange with document.hidden: clearInterval of the handle the app
\* holds, when it holds one
PageHidden ==
    /\ ~hidden
    /\ hidden' = TRUE
    /\ liveIntervals' = IF mobileCryptoApp /\ priceUpdateInterval # 0
                        THEN liveIntervals \ {priceUpdateInterval}
                        ELSE liveIntervals
    /\ paused' = mobileCryptoApp
    /\ lastOp' = "PageHidden"
    /\ UNCHANGED <<mobileCryptoApp, priceUpdateInterval, jobs,
                   mobileDisplay, mobileNews, toasts, lastFetch, alertVars, dashVars, textVars, pageVars>>

\* visibilitychange with the page visible: startPriceUpdates(); refreshData()
PageVisible ==
    /\ hidden
    /\ hidden' = FALSE
    /\ paused' = FALSE
    /\ lastOp' = "PageVisible"
    /\ IF mobileCryptoApp
       THEN StartPriceUpdates /\ RefreshData(toasts)
       ELSE UNCHANGED <<priceUpdateInterval, liveIntervals, jobs, toasts>>
    /\ UNCHANGED <<mobileCryptoApp, mobileDisplay, mobileNews, lastFetch, alertVars, dashVars, textVars, pageVars>>

\* online: a success toast and refreshData()
Online ==
    /\ mobileCryptoApp
    /\ Len(toasts) + 1 < MaxToasts
    /\ RefreshData(ShowToast(toasts, "success"))
    /\ lastOp' = "Online"
    /\ UNCHANGED <<hidden, mobileCryptoApp, priceUpdateInterval, liveIntervals,
                   mobileDisplay, mobileNews, paused, lastFetch, alertVars, dashVars, textVars, pageVars>>

\* offline: a warning toast
Offline ==
    /\ mobileCryptoApp
    /\ Len(toasts) < MaxToasts
    /\ toasts' = ShowToast(toasts, "warning")
    /\ lastOp' = "Offline"
    /\ UNCHANGED <<hidden, mobileCryptoApp, priceUpdateInterval, liveIntervals,
                   jobs, mobileDisplay, mobileNews, paused, lastFetch,
                   alertVars, dashVars, textVars, pageVars>>

\* touchend of a swipe down at the top of the page: refreshData()
PullToRefresh ==
    /\ mobileCryptoApp
    /\ RefreshData(toasts)
    /\ lastOp' = "PullToRefresh"
    /\ UNCHANGED <<hidden, mobileCryptoApp, priceUpdateInterval, liveIntervals,
                   mobileDisplay, mobileNews, paused, lastFetch, alertVars, dashVars, textVars, pageVars>>

\* click on #refresh-news: loadNews()
RefreshNewsClick ==
    /\ mobileCryptoApp
    /\ BagCardinality(jobs) < MaxJobs
    /\ jobs' = jobs (+) SetToBag({Job("news", FALSE, TRUE)})
    /\ lastOp' = "RefreshNewsClick"
    /\ UNCHANGED <<hidden, mobileCryptoApp, priceUpdateInterval, liveIntervals,
                   mobileDisplay, mobileNews, toasts, paused, lastFetch,
                   alertVars, dashVars, textVars, pageVars>>

\* a firing of a live interval: loadPriceData()
PriceTick(h) ==
    /\ h \in liveIntervals
    /\ BagCardinality(jobs) < MaxJobs
    /\ jobs' = jobs (+) SetToBag({Job("tick", TRUE, FALSE)})
    /\ lastOp' = "PriceTick"
    /\ UNCHANGED <<hidden, mobileCryptoApp, priceUpdateInterval, liveIntervals,
                   mobileDisplay, mobileNews, toasts, paused, lastFetch,
                   alertVars, dashVars, textVars, pageVars>>

(***************************************************************************)
(* saveAlert, with what the alert dialog holds: the values of              *)
(* #alert-crypto and #alert-condition, parseFloat of the value of          *)
(* #alert-price; `now`: the clock, `writeOk`: localStorage.setItem does    *)
(* not throw.                                                              *)
(***************************************************************************)
NaN == [t |-> "nan", v |-> 0]
CryptoInputs == {"", "bitcoin"}
ConditionInputs == {"", "above", "below"}
PriceInputs == {NaN, Num(0), Num(-5), Num(50000)}
Times == {1}

\* saveAlert: if (!crypto || !condition || !price) the alert is rejected
AlertAccepted(crypto, condition, price) ==
    ~(crypto = "" \/ condition = "" \/ ~Truthy(price))

\* the object saveAlert builds
NewAlert(crypto, condition, price, now) ==
    [id |-> now, crypto |-> crypto, condition |-> condition, price |-> price,
     created |-> [t |-> "Date", ms |-> now], active |-> TRUE]

\* mutant of SaveAlerts: the list is written as it was before the push
SaveAlertsBeforePush(st, items, writeOk) ==
    IF writeOk THEN Stringify(SubSeq(items, 1, Len(items) - 1)) ELSE st

\* saveAlerts: setItem of the JSON text; an exception is caught and logged
SaveAlerts(st, items, writeOk) == IF writeOk THEN Stringify(items) ELSE st

SaveAlert(crypto, condition, price, now, writeOk) ==
    /\ mobileCryptoApp
    /\ Len(toasts) < MaxToasts
    /\ IF ~AlertAccepted(crypto, condition, price)
       THEN /\ toasts' = ShowToast(toasts, "warning")
            /\ lastOp' = "SaveAlertRejected"
            /\ UNCHANGED alertVars
       ELSE IF alertsType # "array"
       THEN \* this.alerts.push throws a TypeError: the handler ends there
            /\ lastOp' = "SaveAlertThrew"
            /\ UNCHANGED <<toasts, alertVars>>
       ELSE /\ Len(alerts) < MaxAlerts
            /\ alerts' = Append(alerts, NewAlert(crypto, condition, price, now))
            /\ storage' = SaveAlerts(storage, alerts', writeOk)
            /\ lastWriteOk' = writeOk
            /\ toasts' = ShowToast(toasts, "success")
            /\ lastOp' = "SaveAlertAccepted"
            /\ UNCHANGED alertsType
    /\ UNCHANGED <<hidden, mobileCryptoApp, priceUpdateInterval, liveIntervals, jobs,
                   mobileDisplay, mobileNews, paused, lastFetch, dashVars, textVars, pageVars>>

\* loadAlertStatus: the alerts it reports as triggered. It reads neither
\* this.alerts nor a quote and only writes a line to the console: none.
LoadAlertStatus == <<>>

\* while the page is not loaded, the key is removed or written by something
\* other than saveAlerts: localStorage is shared by every script of the origin
\* and can be edited by the user
StorageWrittenElsewhere(content) ==
    /\ ~mobileCryptoApp
    /\ storage # content
    /\ storage' = content
    /\ lastOp' = "StorageWrittenElsewhere"
    /\ UNCHANGED <<hidden, mobileCryptoApp, priceUpdateInterval, liveIntervals, jobs,
                   mobileDisplay, mobileNews, toasts, paused, lastFetch,
                   alerts, alertsType, lastWriteOk, dashVars, textVars, pageVars>>

\* the page is left or reloaded: the script's state is gone, localStorage stays
PageUnload ==
    /\ mobileCryptoApp
    /\ mobileCryptoApp' = FALSE
    /\ priceUpdateInterval' = 0
    /\ liveIntervals' = {}
    /\ jobs' = EmptyBag
    /\ mobileDisplay' = [c \in DOMAIN mobileDisplay |->
                            [price |-> Initial, change |-> Initial]]
    /\ mobileNews' = "initial"
    /\ toasts' = <<>>
    /\ paused' = FALSE
    /\ lastFetch' = NoFetch
    /\ alerts' = <<>>
    /\ alertsType' = "array"
    /\ lastOp' = "PageUnload"
    /\ UNCHANGED <<hidden, storage, lastWriteOk, dashVars, textVars, pageVars>>

(***************************************************************************)
(* Continuations of the mobile page's async functions.                     *)
(***************************************************************************)
NextRoundKeepsStage(j) ==
    [j EXCEPT !.pi = @ + 1,
              !.stage = IF j.pi + 1 = PriceDone THEN "none" ELSE j.stage,
              !.primary = NoOutcome]

\* loadPriceData moves on to the next crypto, or returns after the last one
NextRound(j) ==
    [j EXCEPT !.pi = @ + 1,
              !.stage = IF j.pi + 1 = PriceDone THEN "none" ELSE "primary",
              !.primary = NoOutcome]

\* the call tree j continues as j2; a settled tree leaves the page, and a
\* settled refreshData shows its success toast first
Continue(j, j2) ==
    IF JobSettled(j2)
    THEN /\ jobs' = jobs (-) SetToBag({j})
         /\ IF j2.root = "refresh"
            THEN /\ Len(toasts) < MaxToasts
                 /\ toasts' = ShowToast(toasts, "success")
            ELSE UNCHANGED toasts
    ELSE /\ jobs' = (jobs (-) SetToBag({j})) (+) SetToBag({j2})
         /\ UNCHANGED toasts

\* the primary endpoint answers the outstanding fetchCryptoPrice of tree j
PrimaryResponds(j, o) ==
    LET crypto == MobileCryptos[j.pi]
        data == PrimaryResult(o)
    IN  /\ BagIn(j, jobs)
        /\ j.stage = "primary"
        /\ IF PrimaryReturns(o)
           THEN /\ mobileDisplay' = [mobileDisplay EXCEPT
                                        ![crypto] = CardAfterFetch(@, data)]
                /\ lastFetch' = Fetched("mobile", crypto, <<"primary">>, o,
                                        NoOutcome, data, FALSE)
                /\ Continue(j, NextRound(j))
           ELSE /\ jobs' = (jobs (-) SetToBag({j})) (+)
                             SetToBag({[j EXCEPT !.stage = "fallback", !.primary = o]})
                /\ UNCHANGED <<mobileDisplay, lastFetch, toasts>>
        /\ lastOp' = "PrimaryResponds"
        /\ UNCHANGED <<hidden, mobileCryptoApp, priceUpdateInterval, liveIntervals,
                       mobileNews, paused, alertVars, dashVars, textVars, pageVars>>

\* the public endpoint answers the outstanding fetchCryptoPrice of tree j
FallbackResponds(j, o) ==
    LET crypto == MobileCryptos[j.pi]
        data == FallbackResult(o)
    IN  /\ BagIn(j, jobs)
        /\ j.stage = "fallback"
        /\ mobileDisplay' = [mobileDisplay EXCEPT ![crypto] = CardAfterFetch(@, data)]
        /\ lastFetch' = Fetched("mobile", crypto, <<"primary", "fallback">>,
                                j.primary, o, data, FALSE)
        /\ Continue(j, NextRound(j))
        /\ lastOp' = "FallbackResponds"
        /\ UNCHANGED <<hidden, mobileCryptoApp, priceUpdateInterval, liveIntervals,
                       mobileNews, paused, alertVars, dashVars, textVars, pageVars>>

\* /api/crypto-news answers the outstanding loadNews of tree j:
\* displayMobileNews(news), or displaySampleNews() on any failure
NewsResponds(j, o) ==
        /\ BagIn(j, jobs)
        /\ j.news = "fetching"
        /\ mobileNews' = IF o = "ok" THEN "fetched" ELSE "sample"
        /\ Continue(j, [j EXCEPT !.news = "done"])
        /\ lastOp' = "NewsResponds"
        /\ UNCHANGED <<hidden, mobileCryptoApp, priceUpdateInterval, liveIntervals,
                       mobileDisplay, paused, lastFetch, alertVars, dashVars, textVars, pageVars>>

\* the 3000 ms timer of the oldest toast still shown: the animation starts
ToastExpire(i) ==
    /\ i \in 1..Len(toasts)
    /\ toasts[i].phase = "shown"
    /\ \A k \in 1..(i - 1) : toasts[k].phase # "shown"
    /\ toasts' = [toasts EXCEPT ![i].phase = "fading"]
    /\ lastOp' = "ToastExpire"
    /\ UNCHANGED <<hidden, mobileCryptoApp, priceUpdateInterval, liveIntervals,
                   jobs, mobileDisplay, mobileNews, paused, lastFetch,
                   alertVars, dashVars, textVars, pageVars>>

\* the 300 ms timer of a toast: toast.remove()
ToastRemove(i) ==
    /\ i \in 1..Len(toasts)
    /\ toasts[i].phase = "fading"
    /\ \A k \in 1..(i - 1) : toasts[k].phase # "fading"
    /\ toasts' = RemoveAt(toasts, i)
    /\ lastOp' = "ToastRemove"
    /\ UNCHANGED <<hidden, mobileCryptoApp, priceUpdateInterval, liveIntervals,
                   jobs, mobileDisplay, mobileNews, paused, lastFetch,
                   alertVars, dashVars, textVars, pageVars>>

(***************************************************************************)
(* CryptoDashboard: the price path (loadMarketOverview, fetchFromCoinGecko, *)
(* updatePriceCard).                                                       *)
(***************************************************************************)
\* loadMarketOverview: const cryptos = ['bitcoin', 'ethereum']
DashCryptos == <<"bitcoin", "ethereum">>
DashDone == Len(DashCryptos) + 1

\* constructor: this.updateInterval = 30000
DefaultUpdateInterval == 30000

\* a || b
Or(a, b) == IF Truthy(a) THEN a ELSE b

\* the objects updatePriceCard is called with: the primary body
\* {price_usd, price_change_24h} or the public endpoint's entry
\* {usd, usd_24h_change}
PrimaryData(o) == [usd |-> Undefined, usd_24h_change |-> Undefined,
                   price_usd |-> o.price, price_change_24h |-> o.change]
FallbackData(o) == [usd |-> o.price, usd_24h_change |-> o.change,
                    price_usd |-> Undefined, price_change_24h |-> Undefined]

\* fetchFromCoinGecko: data[cryptoId] on a 2xx answer with a readable body
\* (undefined, when the body has no entry for the id), null otherwise; TRUE
\* when that value is truthy
FallbackDataTruthy(o) == o.kind = "ok" /\ o.price.t # "undefined"

\* updatePriceCard: price = data.usd || data.price_usd,
\* change = data.usd_24h_change || data.price_change_24h
DashPrice(data) == Or(data.usd, data.price_usd)
DashChange(data) == Or(data.usd_24h_change, data.price_change_24h)

\* the quote updatePriceCard reads off the object
DashQuote(data) == Quote(DashPrice(data), DashChange(data))

\* updatePriceCard throws a TypeError at change.toFixed when change is
\* neither undefined nor a number
DashUpdateThrows(data) == DashChange(data).t \notin {"undefined", "num"}

\* updatePriceCard: the price element always gets the price or 'N/A', the
\* change element is written when change !== undefined
NotAvailable == [t |-> "N/A", v |-> 0]
DashUpdatePriceCard(card, data) ==
    [price |-> IF DashPrice(data).t = "num" THEN DashPrice(data) ELSE NotAvailable,
     change |-> IF DashChange(data).t = "num" THEN DashChange(data) ELSE card.change]

(***************************************************************************)
(* Notifications of the dashboard (showNotification): as a toast, with a   *)
(* 5000 ms timer.                                                          *)
\* click on the close button of toast i
ToastDismiss(i) ==
    /\ i \in 1..Len(toasts)
    /\ IsAttached(toasts[i])
    /\ toasts' = [toasts EXCEPT ![i] = Dismissed(@)]
    /\ lastOp' = "ToastDismiss"
    /\ UNCHANGED <<hidden, mobileCryptoApp, priceUpdateInterval, liveIntervals,
                   jobs, mobileDisplay, mobileNews, paused, lastFetch,
                   alertVars, dashVars, textVars, pageVars>>

\* a timer of a toast that was dismissed fires: `if (toast.parentElement)` is
\* false, or toast.remove() finds the toast detached; nothing is left of it
ToastTimerLapsed(i) ==
    /\ i \in 1..Len(toasts)
    /\ ~IsAttached(toasts[i])
    /\ toasts' = RemoveAt(toasts, i)
    /\ lastOp' = "ToastTimerLapsed"
    /\ UNCHANGED <<hidden, mobileCryptoApp, priceUpdateInterval, liveIntervals,
                   jobs, mobileDisplay, mobileNews, paused, lastFetch,
                   alertVars, dashVars, textVars, pageVars>>

\* d ms pass, or less when a timer fires earlier: timers fire when they are due
TimePasses(d) ==
    LET dt == UntilDue(toasts, ToastTtl, ToastExit,
                       UntilDue(notifications, NotificationTtl, NotificationExit, d))
    IN  /\ Len(toasts) + Len(notifications) > 0
        /\ dt > 0
        /\ toasts' = Aged(toasts, dt)
        /\ notifications' = Aged(notifications, dt)
        /\ lastOp' = "TimePasses"
        /\ UNCHANGED <<hidden, mobileCryptoApp, priceUpdateInterval, liveIntervals,
                       jobs, mobileDisplay, mobileNews, paused, lastFetch, alertVars, textVars, pageVars>>
        /\ UNCHANGED <<dashApp, updateInterval, dashIntervals, dashJobs, dashDisplay,
                       dashNews, dashSettings, unhandled>>

(***************************************************************************)
ShowNotification(ns, type) == Append(ns, Toast(type))

(***************************************************************************)
(* Async call trees of the dashboard page.  root: "init"                   *)
(* (loadInitialData awaited by init), "tick" (loadMarketOverview called by *)
(* the price interval), "newstick" (loadCryptoNews called by the news      *)
(* interval).  pi, stage, news as on the mobile page; joined: the          *)
(* Promise.all of loadInitialData has settled and init() has gone on.      *)
(***************************************************************************)
DashJob(root, withPrice, withNews) ==
    [root |-> root,
     pi |-> IF withPrice THEN 1 ELSE 0,
     stage |-> IF withPrice THEN "primary" ELSE "none",
     news |-> IF withNews THEN "fetching" ELSE "none",
     joined |-> root # "init"]

DashJobSettled(j) == j.pi \in {0, DashDone} /\ j.news \in {"none", "done"}

\* startRealTimeUpdates: two setInterval calls, no clearInterval
StartRealTimeUpdates(ivs, ms) ==
    ivs \o <<[task |-> "price", ms |-> ms], [task |-> "news", ms |-> ms * 2]>>

DashInit ==
    /\ dashApp = "none"
    /\ updateInterval = DefaultUpdateInterval
    /\ dashIntervals = <<>>
    /\ dashJobs = <<>>
    /\ dashDisplay = [c \in {DashCryptos[i] : i \in 1..Len(DashCryptos)} |->
                          [price |-> Initial, change |-> Initial]]
    /\ dashNews = "initial"
    /\ notifications = <<>>
    /\ dashSettings = 0
    /\ unhandled = FALSE

(***************************************************************************)
(* Handlers and continuations of the dashboard page.                       *)
(***************************************************************************)
\* update-frequency values the settings dialog offers, in seconds
Frequencies == {10, 60}

\* DOMContentLoaded: new CryptoDashboard(): init() up to
\* `await this.loadInitialData()`
DashLoaded ==
    /\ dashApp = "none"
    /\ dashApp' = "loading"
    /\ dashJobs' = Append(dashJobs, DashJob("init", TRUE, TRUE))
    /\ UNCHANGED <<hidden, mobileCryptoApp, priceUpdateInterval, liveIntervals, jobs,
                   mobileDisplay, mobileNews, toasts, paused, lastFetch, alertVars, textVars, pageVars>>
    /\ lastOp' = "DashLoaded"
    /\ UNCHANGED <<updateInterval, dashIntervals, dashDisplay, dashNews, notifications,
                   dashSettings, unhandled>>

\* loadMarketOverview moves on to the next crypto; after the last one it
\* awaits loadMarketMetrics() and returns
DashNextRound(j) ==
    [j EXCEPT !.pi = @ + 1,
              !.stage = IF j.pi + 1 = DashDone THEN "none" ELSE "primary"]

\* loadMarketOverview ends in the catch block of its loop:
\* this.showSkeletonData is not defined, the call throws a TypeError and the
\* promise of loadMarketOverview is rejected
DashRejected(j) == [j EXCEPT !.pi = DashDone, !.stage = "none"]

\* the call tree i continues as j2; `rejected`: its loadMarketOverview was
\* just rejected.  The Promise.all of loadInitialData settles when one part
\* is rejected (catch: an error notification) or all are fulfilled; then
\* init() goes on to startRealTimeUpdates().  A rejection nobody awaits is
\* an unhandled rejection.
DashContinue(i, j2, rejected) ==
    LET joinNow == ~j2.joined /\ (rejected \/ DashJobSettled(j2))
        j3 == [j2 EXCEPT !.joined = @ \/ joinNow]
    IN  /\ dashJobs' = IF DashJobSettled(j3) THEN RemoveAt(dashJobs, i)
                       ELSE [dashJobs EXCEPT ![i] = j3]
        /\ IF joinNow
           THEN /\ dashApp' = "running"
                /\ dashIntervals' = StartRealTimeUpdates(dashIntervals, updateInterval)
           ELSE UNCHANGED <<dashApp, dashIntervals>>
        /\ IF rejected /\ ~j2.joined
           THEN /\ Len(notifications) < MaxToasts
                /\ notifications' = ShowNotification(notifications, "error")
           ELSE UNCHANGED notifications
        /\ unhandled' = (unhandled \/ (rejected /\ j2.joined))

\* /api/crypto-price/{id} answers the outstanding request of tree i
DashPrimaryResponds(i, o) ==
    LET j == dashJobs[i]
        crypto == DashCryptos[j.pi]
        data == PrimaryData(o)
    IN  /\ j.stage = "primary"
        /\ CASE o.kind = "ok" /\ ~DashUpdateThrows(data) ->
                  /\ dashDisplay' = [dashDisplay EXCEPT
                                        ![crypto] = DashUpdatePriceCard(@, data)]
                  /\ lastFetch' = Fetched("dashboard", crypto, <<"primary">>, o,
                                          NoOutcome, DashQuote(data), FALSE)
                  /\ DashContinue(i, DashNextRound(j), FALSE)
             [] o.kind = "ok" /\ DashUpdateThrows(data) ->
                  /\ dashDisplay' = [dashDisplay EXCEPT ![crypto].price =
                        IF DashPrice(data).t = "num" THEN DashPrice(data)
                        ELSE NotAvailable]
                  /\ lastFetch' = Fetched("dashboard", crypto, <<"primary">>, o,
                                          NoOutcome, DashQuote(data), TRUE)
                  /\ DashContinue(i, DashRejected(j), TRUE)
             [] o.kind = "http_error" ->
                  /\ dashJobs' = [dashJobs EXCEPT ![i] = [j EXCEPT !.stage = "fallback"]]
                  /\ UNCHANGED <<dashDisplay, lastFetch, dashApp, dashIntervals,
                                 notifications, unhandled>>
             [] o.kind \in {"reject", "bad_body"} ->
                  /\ lastFetch' = Fetched("dashboard", crypto, <<"primary">>, o,
                                          NoOutcome, NullResult, TRUE)
                  /\ DashContinue(i, DashRejected(j), TRUE)
                  /\ UNCHANGED dashDisplay
        /\ lastOp' = "DashPrimaryResponds"
        /\ UNCHANGED <<hidden, mobileCryptoApp, priceUpdateInterval, liveIntervals, jobs,
                       mobileDisplay, mobileNews, toasts, paused, alertVars, textVars, pageVars>>
        /\ UNCHANGED <<updateInterval, dashNews, dashSettings>>

\* the public endpoint answers the fetchFromCoinGecko call of tree i
DashFallbackResponds(i, o) ==
    LET j == dashJobs[i]
        crypto == DashCryptos[j.pi]
        data == FallbackData(o)
        shown == FallbackDataTruthy(o)
        throws == shown /\ DashUpdateThrows(data)
    IN  /\ j.stage = "fallback"
        /\ dashDisplay' =
              IF ~shown THEN dashDisplay
              ELSE IF throws
                   THEN [dashDisplay EXCEPT ![crypto].price =
                            IF DashPrice(data).t = "num" THEN DashPrice(data)
                            ELSE NotAvailable]
                   ELSE [dashDisplay EXCEPT ![crypto] = DashUpdatePriceCard(@, data)]
        /\ lastFetch' = Fetched("dashboard", crypto, <<"primary", "fallback">>,
                                Failure("http_error"), o,
                                IF shown THEN DashQuote(data) ELSE NullResult, throws)
        /\ DashContinue(i, IF throws THEN DashRejected(j) ELSE DashNextRound(j), throws)
        /\ lastOp' = "DashFallbackResponds"
        /\ UNCHANGED <<hidden, mobileCryptoApp, priceUpdateInterval, liveIntervals, jobs,
                       mobileDisplay, mobileNews, toasts, paused, alertVars, textVars, pageVars>>
        /\ UNCHANGED <<updateInterval, dashNews, dashSettings>>

\* /api/crypto-news answers the loadCryptoNews call of tree i:
\* displayNews(news), or displaySampleNews() on any failure
DashNewsResponds(i, o) ==
    LET j == dashJobs[i]
    IN  /\ j.news = "fetching"
        /\ dashNews' = IF o = "ok" THEN "fetched" ELSE "sample"
        /\ DashContinue(i, [j EXCEPT !.news = "done"], FALSE)
        /\ lastOp' = "DashNewsResponds"
        /\ UNCHANGED <<hidden, mobileCryptoApp, priceUpdateInterval, liveIntervals, jobs,
                       mobileDisplay, mobileNews, toasts, paused, lastFetch, alertVars, textVars, pageVars>>
        /\ UNCHANGED <<updateInterval, dashDisplay, dashSettings>>

\* a firing of interval k of the dashboard page
DashTick(k) ==
    /\ k \in 1..Len(dashIntervals)
    /\ Len(dashJobs) < MaxJobs
    /\ dashJobs' = Append(dashJobs,
                          IF dashIntervals[k].task = "price"
                          THEN DashJob("tick", TRUE, FALSE)
                          ELSE DashJob("newstick", FALSE, TRUE))
    /\ lastOp' = "DashTick"
    /\ UNCHANGED <<hidden, mobileCryptoApp, priceUpdateInterval, liveIntervals, jobs,
                   mobileDisplay, mobileNews, toasts, paused, lastFetch, alertVars, textVars, pageVars>>
    /\ UNCHANGED <<dashApp, updateInterval, dashIntervals, dashDisplay, dashNews,
                   notifications, dashSettings, unhandled>>

\* saveSettings with `freq` chosen in #update-frequency
SaveSettings(freq) ==
    /\ dashApp # "none"
    /\ Len(dashIntervals) + 2 + (IF dashApp = "loading" THEN 2 ELSE 0)
          <= 2 * (MaxSaves + 1)
    /\ Len(notifications) < MaxToasts
    /\ updateInterval' = freq * 1000
    /\ dashSettings' = freq
    /\ notifications' = ShowNotification(notifications, "success")
    /\ dashIntervals' = StartRealTimeUpdates(dashIntervals, freq * 1000)
    /\ lastOp' = "SaveSettings"
    /\ UNCHANGED <<hidden, mobileCryptoApp, priceUpdateInterval, liveIntervals, jobs,
                   mobileDisplay, mobileNews, toasts, paused, lastFetch, alertVars, textVars, pageVars>>
    /\ UNCHANGED <<dashApp, dashJobs, dashDisplay, dashNews, unhandled>>

\* mutant of NotificationRemove: the 300 ms timer leaves the element attached
NotificationRemoveReshows(i) ==
    /\ i \in 1..Len(notifications)
    /\ notifications[i].phase = "fading"
    /\ notifications' = [notifications EXCEPT ![i].phase = "shown"]
    /\ lastOp' = "NotificationRemove"
    /\ UNCHANGED <<hidden, mobileCryptoApp, priceUpdateInterval, liveIntervals, jobs,
                   mobileDisplay, mobileNews, toasts, paused, lastFetch, alertVars, textVars, pageVars>>
    /\ UNCHANGED <<dashApp, updateInterval, dashIntervals, dashJobs, dashDisplay,
                   dashNews, dashSettings, unhandled>>

\* the 5000 ms timer of the oldest notification still shown
NotificationExpire(i) ==
    /\ i \in 1..Len(notifications)
    /\ notifications[i].phase = "shown"
    /\ \A k \in 1..(i - 1) : notifications[k].phase # "shown"
    /\ notifications' = [notifications EXCEPT ![i].phase = "fading"]
    /\ lastOp' = "NotificationExpire"
    /\ UNCHANGED <<hidden, mobileCryptoApp, priceUpdateInterval, liveIntervals, jobs,
                   mobileDisplay, mobileNews, toasts, paused, lastFetch, alertVars, textVars, pageVars>>
    /\ UNCHANGED <<dashApp, updateInterval, dashIntervals, dashJobs, dashDisplay,
                   dashNews, dashSettings, unhandled>>

\* the 300 ms timer of a notification: notification.remove()
NotificationRemove(i) ==
    /\ i \in 1..Len(notifications)
    /\ notifications[i].phase = "fading"
    /\ \A k \in 1..(i - 1) : notifications[k].phase # "fading"
    /\ notifications' = RemoveAt(notifications, i)
    /\ lastOp' = "NotificationRemove"
    /\ UNCHANGED <<hidden, mobileCryptoApp, priceUpdateInterval, liveIntervals, jobs,
                   mobileDisplay, mobileNews, toasts, paused, lastFetch, alertVars, textVars, pageVars>>
    /\ UNCHANGED <<dashApp, updateInterval, dashIntervals, dashJobs, dashDisplay,
                   dashNews, dashSettings, unhandled>>

\* click on the close button of notification i
NotificationDismiss(i) ==
    /\ i \in 1..Len(notifications)
    /\ IsAttached(notifications[i])
    /\ notifications' = [notifications EXCEPT ![i] = Dismissed(@)]
    /\ lastOp' = "NotificationDismiss"
    /\ UNCHANGED <<hidden, mobileCryptoApp, priceUpdateInterval, liveIntervals, jobs,
                   mobileDisplay, mobileNews, toasts, paused, lastFetch, alertVars, textVars, pageVars>>
    /\ UNCHANGED <<dashApp, updateInterval, dashIntervals, dashJobs, dashDisplay,
                   dashNews, dashSettings, unhandled>>

\* a timer of a notification that was dismissed fires and finds it detached
NotificationTimerLapsed(i) ==
    /\ i \in 1..Len(notifications)
    /\ ~IsAttached(notifications[i])
    /\ notifications' = RemoveAt(notifications, i)
    /\ lastOp' = "NotificationTimerLapsed"
    /\ UNCHANGED <<hidden, mobileCryptoApp, priceUpdateInterval, liveIntervals, jobs,
                   mobileDisplay, mobileNews, toasts, paused, lastFetch, alertVars, textVars, pageVars>>
    /\ UNCHANGED <<dashApp, updateInterval, dashIntervals, dashJobs, dashDisplay,
                   dashNews, dashSettings, unhandled>>

\* runDetailedAnalysis with no crypto selected: the warning, and return
RunDetailedAnalysisNoSelection ==
    /\ dashApp # "none"
    /\ Len(notifications) < MaxToasts
    /\ notifications' = ShowNotification(notifications, "warning")
    /\ lastOp' = "RunDetailedAnalysis"
    /\ UNCHANGED <<hidden, mobileCryptoApp, priceUpdateInterval, liveIntervals, jobs,
                   mobileDisplay, mobileNews, toasts, paused, lastFetch, alertVars, textVars, pageVars>>
    /\ UNCHANGED <<dashApp, updateInterval, dashIntervals, dashJobs, dashDisplay,
                   dashNews, dashSettings, unhandled>>

(***************************************************************************)
(* Analysis texts (parseAnalysisMetrics of both pages).  A text is a       *)
(* sequence of characters; a keyword the code searches for with includes() *)
(* is one element: "POSITIVE", "NEGATIVE", "BUY", "SELL", and "pojitibu",  *)
(* "negatibu", "kai", "uri" for the Japanese keywords.  A metric is        *)
(* [label, value, class]; labels and values are written in Latin letters:  *)
(* "price", "change24h", "sentiment", "recommendation" for the labels,     *)
(* "pojitibu", "negatibu", "nyutoraru" for the sentiment words, and the    *)
(* first element of a mobile value names its emoji.                        *)
(***************************************************************************)
NoAnalysis == [shown |-> FALSE, text |-> <<>>, metrics |-> <<>>]
NoSections == [shown |-> FALSE, text |-> <<>>, sections |-> <<>>]
NoNews == [shown |-> FALSE, title |-> [t |-> "undefined", s |-> <<>>],
           summary |-> [t |-> "undefined", s |-> <<>>], category |-> "none",
           sentiment |-> "none"]

TextInit ==
    /\ quickAnalysis = NoAnalysis
    /\ mobileAnalysis = NoAnalysis
    /\ detailedAnalysis = NoSections
    /\ enhancedNews = NoNews

Digits == {"0", "1", "2", "3", "4", "5", "6", "7", "8", "9"}     \* [0-9]
PriceChars == Digits \cup {","}                                   \* [0-9,]

\* the last position of the longest run of characters of `set` that starts
\* at position i; i - 1 when there is none
RECURSIVE RunEnd(_, _, _)
RunEnd(text, i, set) ==
    IF i <= Len(text) /\ text[i] \in set THEN RunEnd(text, i + 1, set) ELSE i - 1

\* the character at position i is c
At(text, i, c) == i <= Len(text) /\ text[i] = c

\* /\$([0-9,]+\.?[0-9]*)/ tried at position i: the last position matched,
\* 0 when it does not match there
PriceMatchAt(text, i) ==
    LET a == RunEnd(text, i + 1, PriceChars)
        b == IF At(text, a + 1, ".") THEN a + 1 ELSE a
    IN  IF text[i] # "$" \/ a = i THEN 0 ELSE RunEnd(text, b + 1, Digits)

\* /([+-]?[0-9]+\.?[0-9]*)%/ tried at position i: the last position of the
\* group, 0 when it does not match there
ChangeMatchAt(text, i) ==
    LET s == IF text[i] \in {"+", "-"} THEN i + 1 ELSE i
        a == RunEnd(text, s, Digits)
        b == IF At(text, a + 1, ".") THEN a + 1 ELSE a
        c == RunEnd(text, b + 1, Digits)
    IN  IF a < s THEN 0
        ELSE IF At(text, c + 1, "%") THEN c
        ELSE 0

\* String.prototype.match without the g flag: the leftmost match.  ends[i]
\* is where the match tried at position i ends, 0 when there is none; the
\* result is [found, from, to]: the positions of the match
LeftmostMatch(ends) ==
    LET hits == {i \in DOMAIN ends : ends[i] # 0}
    IN  IF hits = {} THEN [found |-> FALSE, from |-> 0, to |-> 0]
        ELSE LET i == CHOOSE h \in hits : \A k \in hits : h <= k
             IN  [found |-> TRUE, from |-> i, to |-> ends[i]]

\* analysisText.match(/\$([0-9,]+\.?[0-9]*)/)
PriceMatch(text) == LeftmostMatch([i \in 1..Len(text) |-> PriceMatchAt(text, i)])
\* analysisText.match(/([+-]?[0-9]+\.?[0-9]*)%/)
ChangeMatch(text) == LeftmostMatch([i \in 1..Len(text) |-> ChangeMatchAt(text, i)])

\* priceMatch[1] and changeMatch[1]
PriceGroup(text, m) == SubSeq(text, m.from + 1, m.to)
ChangeGroup(text, m) == SubSeq(text, m.from, m.to)

\* parseFloat(changeMatch[1]) >= 0: the group is a decimal number with an
\* optional sign; it is negative when it has a minus sign and is not zero
ChangeNotNegative(group) ==
    ~(group[1] = "-" /\ \E i \in 1..Len(group) : group[i] \in Digits \ {"0"})

\* change.toFixed(2) for a group without leading zeros, not zero and with
\* at most two fractional digits (the texts of this model): the sign '+'
\* is dropped, the fraction is padded with zeros to two digits
ToFixed2(group) ==
    LET unsigned == IF group[1] \in {"+", "-"} THEN Tail(group) ELSE group
        dots == {i \in 1..Len(unsigned) : unsigned[i] = "."}
        dot == IF dots = {} THEN Len(unsigned) + 1 ELSE CHOOSE i \in dots : TRUE
        whole == SubSeq(unsigned, 1, dot - 1)
        frac == SubSeq(unsigned, dot + 1, Len(unsigned))
        padded == IF Len(frac) = 0 THEN <<"0", "0">>
                  ELSE IF Len(frac) = 1 THEN frac \o <<"0">>
                  ELSE SubSeq(frac, 1, 2)
    IN  (IF group[1] = "-" THEN <<"-">> ELSE <<>>) \o whole \o <<".">> \o padded

\* analysisText.includes(a) || analysisText.includes(b)
IncludesAny(text, keywords) == \E i \in 1..Len(text) : text[i] \in keywords

Metric(label, value, class) == [label |-> label, value |-> value, class |-> class]

\* the metrics.push of the price block
PriceMetrics(text) ==
    LET m == PriceMatch(text)
    IN  IF m.found THEN <<Metric("price", <<"$">> \o PriceGroup(text, m), "")>>
        ELSE <<>>

\* the metrics.push of the change block; up, down: the two class names
ChangeMetrics(text, up, down) ==
    LET m == ChangeMatch(text)
        group == ChangeGroup(text, m)
    IN  IF m.found
        THEN <<Metric("change24h", ToFixed2(group) \o <<"%">>,
                      IF ChangeNotNegative(group) THEN up ELSE down)>>
        ELSE <<>>

\* mutant of SentimentMetric: the negative keywords are looked for first
SentimentMetricNegativeFirst(text, values, classes) ==
    IF IncludesAny(text, {"NEGATIVE", "negatibu"})
    THEN Metric("sentiment", values[2], classes[2])
    ELSE IF IncludesAny(text, {"POSITIVE", "pojitibu"})
    THEN Metric("sentiment", values[1], classes[1])
    ELSE Metric("sentiment", values[3], classes[3])

\* the sentiment block; values, classes: those of the positive, the negative
\* and the neutral branch
SentimentMetric(text, values, classes) ==
    IF IncludesAny(text, {"POSITIVE", "pojitibu"})
    THEN Metric("sentiment", values[1], classes[1])
    ELSE IF IncludesAny(text, {"NEGATIVE", "negatibu"})
    THEN Metric("sentiment", values[2], classes[2])
    ELSE Metric("sentiment", values[3], classes[3])

\* mutant of RecommendationMetric: the sell keywords are looked for first
RecommendationMetricSellFirst(text, values, classes) ==
    IF IncludesAny(text, {"SELL", "uri"})
    THEN Metric("recommendation", values[2], classes[2])
    ELSE IF IncludesAny(text, {"BUY", "kai"})
    THEN Metric("recommendation", values[1], classes[1])
    ELSE Metric("recommendation", values[3], classes[3])

\* the recommendation block; values, classes: those of the buy, the sell and
\* the hold branch
RecommendationMetric(text, values, classes) ==
    IF IncludesAny(text, {"BUY", "kai"})
    THEN Metric("recommendation", values[1], classes[1])
    ELSE IF IncludesAny(text, {"SELL", "uri"})
    THEN Metric("recommendation", values[2], classes[2])
    ELSE Metric("recommendation", values[3], classes[3])

DashClasses == <<"sentiment-positive", "sentiment-negative", "sentiment-neutral">>
MobileClasses == <<"positive", "negative", "">>

\* mutant of ParseAnalysisMetrics: the sentiment is pushed before the change
ParseAnalysisMetricsSentimentFirst(text) ==
    PriceMetrics(text)
    \o <<SentimentMetric(text, <<<<"pojitibu">>, <<"negatibu">>, <<"nyutoraru">>>>,
                         DashClasses)>>
    \o ChangeMetrics(text, "price-up", "price-down")
    \o <<RecommendationMetric(text, <<<<"BUY">>, <<"SELL">>, <<"HOLD">>>>, DashClasses)>>

\* CryptoDashboard.parseAnalysisMetrics
ParseAnalysisMetrics(text) ==
    PriceMetrics(text)
    \o ChangeMetrics(text, "price-up", "price-down")
    \o <<SentimentMetric(text, <<<<"pojitibu">>, <<"negatibu">>, <<"nyutoraru">>>>,
                         DashClasses)>>
    \o <<RecommendationMetric(text, <<<<"BUY">>, <<"SELL">>, <<"HOLD">>>>, DashClasses)>>

\* MobileCryptoApp.parseAnalysisMetrics
MobileParseAnalysisMetrics(text) ==
    PriceMetrics(text)
    \o ChangeMetrics(text, "positive", "negative")
    \o <<SentimentMetric(text, <<<<"smiling face", "pojitibu">>,
                                 <<"worried face", "negatibu">>,
                                 <<"neutral face", "nyutoraru">>>>, MobileClasses)>>
    \o <<RecommendationMetric(text, <<<<"chart up", "BUY">>, <<"chart down", "SELL">>,
                                      <<"pause", "HOLD">>>>, MobileClasses)>>

\* the texts of the model: at most MaxTextLen characters of AnalysisChars
AnalysisChars == {"$", "5", ",", ".", "%", "-", "x",
                  "POSITIVE", "NEGATIVE", "pojitibu", "BUY", "SELL", "uri"}
TextsOver(chars, n) == UNION {[1..k -> chars] : k \in 0..n}
AnalysisTexts == TextsOver(AnalysisChars, MaxTextLen)

\* displayQuickAnalysisResults(analysisText) of the dashboard
DisplayQuickAnalysisResults(text) ==
    /\ dashApp # "none"
    /\ quickAnalysis' = [shown |-> TRUE, text |-> text,
                         metrics |-> ParseAnalysisMetrics(text)]
    /\ lastOp' = "DisplayQuickAnalysisResults"
    /\ UNCHANGED <<hidden, mobileCryptoApp, priceUpdateInterval, liveIntervals, jobs,
                   mobileDisplay, mobileNews, toasts, paused, lastFetch,
                   alertVars, dashVars>>
    /\ UNCHANGED <<mobileAnalysis, detailedAnalysis, enhancedNews, pageVars>>

\* displayMobileAnalysisResults(analysisText) of the mobile page
DisplayMobileAnalysisResults(text) ==
    /\ mobileCryptoApp
    /\ mobileAnalysis' = [shown |-> TRUE, text |-> text,
                          metrics |-> MobileParseAnalysisMetrics(text)]
    /\ lastOp' = "DisplayMobileAnalysisResults"
    /\ UNCHANGED <<hidden, mobileCryptoApp, priceUpdateInterval, liveIntervals, jobs,
                   mobileDisplay, mobileNews, toasts, paused, lastFetch,
                   alertVars, dashVars>>
    /\ UNCHANGED <<quickAnalysis, detailedAnalysis, enhancedNews, pageVars>>

(***************************************************************************)
(* Detailed analysis (parseAnalysisSections of the dashboard).  The text   *)
(* is a sequence of characters, "nl" the newline; a section is [title,     *)
(* content, metrics], title and content sequences of characters in which   *)
(* "<br>" is one element, and "bunseki kekka" stands for the fallback      *)
(* title.                                                                   *)
(***************************************************************************)
Whitespace == {" ", "tab"}                                        \* \s
FallbackTitle == <<"bunseki kekka">>

\* text.split(sep): the pieces between the occurrences of sep
RECURSIVE Split(_, _)
Split(text, sep) ==
    LET at == {i \in 1..Len(text) : text[i] = sep}
    IN  IF at = {} THEN <<text>>
        ELSE LET p == CHOOSE i \in at : \A k \in at : i <= k
             IN  <<SubSeq(text, 1, p - 1)>> \o Split(SubSeq(text, p + 1, Len(text)), sep)

\* line.startsWith('##')
StartsWithHashes(line) == Len(line) >= 2 /\ line[1] = "#" /\ line[2] = "#"

\* line.replace(/^##\s*/, '')
HeadingTitle(line) == SubSeq(line, RunEnd(line, 3, Whitespace) + 1, Len(line))

\* s.trim()
RECURSIVE Trim(_)
Trim(s) ==
    IF Len(s) > 0 /\ s[1] \in Whitespace THEN Trim(Tail(s))
    ELSE IF Len(s) > 0 /\ s[Len(s)] \in Whitespace THEN Trim(SubSeq(s, 1, Len(s) - 1))
    ELSE s

\* line.includes('$') && line.includes(':')
IsMetricLine(line) ==
    /\ \E i \in 1..Len(line) : line[i] = "$"
    /\ \E i \in 1..Len(line) : line[i] = ":"

\* const [label, value] = line.split(':'); {label: label.trim(), value: value.trim()}
SectionMetric(line) ==
    LET parts == Split(line, ":")
    IN  [label |-> Trim(parts[1]), value |-> Trim(parts[2])]

\* the body of the for loop for one line: `sections` the sections pushed so
\* far, `current` the open section (<<>> for null)
ScanLine(line, sections, current) ==
    IF StartsWithHashes(line)
    THEN [sections |-> sections \o current,
          current |-> <<[title |-> HeadingTitle(line), content |-> <<>>,
                         metrics |-> <<>>]>>]
    ELSE IF current = <<>> THEN [sections |-> sections, current |-> current]
    ELSE IF IsMetricLine(line)
    THEN [sections |-> sections,
          current |-> <<[current[1] EXCEPT !.metrics = Append(@, SectionMetric(line))]>>]
    ELSE [sections |-> sections,
          current |-> <<[current[1] EXCEPT !.content = @ \o line \o <<"<br>">>]>>]

\* the for loop over the lines from line k on, and the push after it
RECURSIVE ScanLines(_, _, _, _)
ScanLines(lines, k, sections, current) ==
    IF k > Len(lines) THEN sections \o current
    ELSE LET next == ScanLine(lines[k], sections, current)
         IN  ScanLines(lines, k + 1, next.sections, next.current)

\* analysisText.replace(/\n/g, '<br>')
ReplaceNewlines(text) ==
    [i \in 1..Len(text) |-> IF text[i] = "nl" THEN "<br>" ELSE text[i]]

\* mutant of ParseAnalysisSections: no synthetic section
ParseAnalysisSectionsAsScanned(text) == ScanLines(Split(text, "nl"), 1, <<>>, <<>>)

\* CryptoDashboard.parseAnalysisSections
ParseAnalysisSections(text) ==
    LET sections == ScanLines(Split(text, "nl"), 1, <<>>, <<>>)
    IN  IF Len(sections) > 0 THEN sections
        ELSE <<[title |-> FallbackTitle, content |-> ReplaceNewlines(text),
                metrics |-> <<>>]>>

SectionChars == {"#", " ", "nl", "$", ":", "a"}
\* documents of several lines: a second-level and a third-level heading;
\* two headings with the same title and a body line; a heading with a
\* metric line that holds a second colon and a body line; a heading with
\* the currency sign left of the colon; a heading with a plain metric line
SectionDocuments ==
    {<<"#", "#", " ", "a", "nl", "#", "#", "#", " ", "a">>,
     <<"#", "#", "a", "nl", "a", "nl", "#", "#", "a">>,
     <<"#", "#", " ", "a", "nl", "a", ":", "$", ":", "a", "nl", "a">>,
     <<"#", "#", " ", "a", "nl", "$", ":", "a">>,
     <<"#", "#", " ", "a", "nl", "a", ":", " ", "$", "nl", "a", ":", "a">>}
SectionTexts == TextsOver(SectionChars, MaxTextLen) \cup SectionDocuments

\* displayDetailedAnalysisResults(analysisText) of the dashboard
DisplayDetailedAnalysisResults(text) ==
    /\ dashApp # "none"
    /\ detailedAnalysis' = [shown |-> TRUE, text |-> text,
                            sections |-> ParseAnalysisSections(text)]
    /\ lastOp' = "DisplayDetailedAnalysisResults"
    /\ UNCHANGED <<hidden, mobileCryptoApp, priceUpdateInterval, liveIntervals, jobs,
                   mobileDisplay, mobileNews, toasts, paused, lastFetch,
                   alertVars, dashVars>>
    /\ UNCHANGED <<quickAnalysis, mobileAnalysis, enhancedNews, pageVars>>

(***************************************************************************)
(* News items (enhanceNewsData, categorizeNews of the news page).  title   *)
(* and summary are JavaScript values: a string, given as the sequence of   *)
(* its characters, or undefined when the item has no such property.        *)
(* "kisei" stands for the Japanese word for regulation, one element.       *)
(***************************************************************************)
Str(s) == [t |-> "string", s |-> s]
NoProperty == [t |-> "undefined", s |-> <<>>]

\* string concatenation converts undefined to the string 'undefined'
JsToString(v) ==
    IF v.t = "undefined" THEN <<"u", "n", "d", "e", "f", "i", "n", "e", "d">> ELSE v.s

UpperToLower ==
    [A |-> "a", B |-> "b", C |-> "c", D |-> "d", E |-> "e", F |-> "f", G |-> "g",
     H |-> "h", I |-> "i", J |-> "j", K |-> "k", L |-> "l", M |-> "m", N |-> "n",
     O |-> "o", P |-> "p", Q |-> "q", R |-> "r", S |-> "s", T |-> "t", U |-> "u",
     V |-> "v", W |-> "w", X |-> "x", Y |-> "y", Z |-> "z"]

\* text.toLowerCase()
ToLowerCase(text) ==
    [i \in 1..Len(text) |->
        IF text[i] \in DOMAIN UpperToLower THEN UpperToLower[text[i]] ELSE text[i]]

\* text.includes(term)
Includes(text, term) ==
    \E i \in 1..(Len(text) - Len(term) + 1) : SubSeq(text, i, i + Len(term) - 1) = term

\* the terms of the if chain of categorizeNews, in its order
BitcoinTerms == {<<"b", "i", "t", "c", "o", "i", "n">>, <<"b", "t", "c">>}
EthereumTerms == {<<"e", "t", "h", "e", "r", "e", "u", "m">>, <<"e", "t", "h">>}
DefiTerms == {<<"d", "e", "f", "i">>,
              <<"d", "e", "c", "e", "n", "t", "r", "a", "l", "i", "z", "e", "d">>}
RegulationTerms == {<<"r", "e", "g", "u", "l", "a", "t", "i", "o", "n">>,
                    <<"r", "e", "g", "u", "l", "a", "t", "o", "r", "y">>,
                    <<"kisei">>}
TechnologyTerms == {<<"b", "l", "o", "c", "k", "c", "h", "a", "i", "n">>,
                    <<"t", "e", "c", "h", "n", "o", "l", "o", "g", "y">>,
                    <<"t", "e", "c", "h">>}
Topics == <<[category |-> "bitcoin", terms |-> BitcoinTerms],
            [category |-> "ethereum", terms |-> EthereumTerms],
            [category |-> "defi", terms |-> DefiTerms],
            [category |-> "regulation", terms |-> RegulationTerms],
            [category |-> "technology", terms |-> TechnologyTerms]>>

\* CryptoNewsApp.categorizeNews
CategorizeNews(title, summary) ==
    LET text == ToLowerCase(JsToString(title) \o <<" ">> \o JsToString(summary))
        hits == {k \in 1..Len(Topics) : \E term \in Topics[k].terms : Includes(text, term)}
    IN  IF hits = {} THEN "general"
        ELSE Topics[CHOOSE k \in hits : \A h \in hits : k <= h].category

\* the keyword arrays of analyzeSentiment, in their order.  A Japanese
\* keyword is one element, except the four that share the character "ka"
\* (down): "ka raku", "raku ka", "tei ka" and "ka" itself.
PositiveWords ==
    <<<<"s", "u", "r", "g", "e">>, <<"r", "a", "l", "l", "y">>,
      <<"b", "u", "l", "l", "i", "s", "h">>, <<"g", "a", "i", "n", "s">>,
      <<"r", "i", "s", "e">>, <<"p", "o", "s", "i", "t", "i", "v", "e">>,
      <<"b", "r", "e", "a", "k", "t", "h", "r", "o", "u", "g", "h">>,
      <<"a", "d", "o", "p", "t", "i", "o", "n">>, <<"g", "r", "o", "w", "t", "h">>,
      <<"b", "o", "o", "m">>, <<"s", "o", "a", "r">>, <<"s", "p", "i", "k", "e">>,
      <<"m", "o", "o", "n">>, <<"b", "u", "l", "l">>, <<"u", "p">>,
      <<"h", "i", "g", "h">>, <<"r", "e", "c", "o", "r", "d">>,
      <<"joushou">>, <<"kyuutou">>, <<"tsuyoki">>, <<"rieki">>, <<"zouka">>,
      <<"maemuki">>, <<"toppa">>, <<"saiyou">>, <<"seichou">>, <<"kouchou">>,
      <<"kai">>>>
NegativeWords ==
    <<<<"c", "r", "a", "s", "h">>, <<"d", "u", "m", "p">>,
      <<"b", "e", "a", "r", "i", "s", "h">>, <<"d", "e", "c", "l", "i", "n", "e">>,
      <<"f", "a", "l", "l">>, <<"n", "e", "g", "a", "t", "i", "v", "e">>,
      <<"c", "o", "n", "c", "e", "r", "n">>,
      <<"r", "e", "g", "u", "l", "a", "t", "i", "o", "n">>,
      <<"d", "r", "o", "p">>, <<"p", "l", "u", "n", "g", "e">>, <<"b", "e", "a", "r">>,
      <<"d", "o", "w", "n">>, <<"l", "o", "w">>, <<"s", "e", "l", "l">>,
      <<"f", "e", "a", "r">>, <<"r", "i", "s", "k">>,
      <<"bouraku">>, <<"danpu">>, <<"yowaki">>, <<"ka", "raku">>, <<"raku", "ka">>,
      <<"hiteiteki">>, <<"kenen">>, <<"kisei">>,
      <<"tei", "ka">>, <<"kyuuraku">>, <<"kuma">>, <<"ka">>, <<"hikui">>, <<"uri">>,
      <<"kyoufu">>, <<"risuku">>, <<"fuan">>>>

\* words.filter(word => text.includes(word)).length
FilterIncludedLength(words, text) ==
    Cardinality({k \in 1..Len(words) : Includes(text, words[k])})

\* CryptoNewsApp.analyzeSentiment
AnalyzeSentiment(title, summary) ==
    LET text == ToLowerCase(JsToString(title) \o <<" ">> \o JsToString(summary))
        posCount == FilterIncludedLength(PositiveWords, text)
        negCount == FilterIncludedLength(NegativeWords, text)
    IN  IF posCount > negCount THEN "positive"
        ELSE IF negCount > posCount THEN "negative"
        ELSE "neutral"

\* the titles and summaries of the model
NewsWords == {<<"B", "i", "t", "c", "o", "i", "n">>, <<"E", "T", "H">>,
              <<"D", "e", "F", "i">>, <<"kisei">>, <<"T", "e", "c", "h">>,
              <<"m", "e", "t", "h", "o", "d">>, <<"M", "a", "r", "k", "e", "t">>,
              <<"u", "p">>, <<"C", "r", "a", "s", "h">>,
              <<"r", "a", "l", "l", "y", " ", "r", "a", "l", "l", "y">>,
              <<"f", "e", "a", "r", " ", "r", "i", "s", "k">>}
NewsTitles == {Str(w) : w \in NewsWords}
NewsSummaries == NewsTitles \cup {NoProperty}

\* enhanceNewsData for one item of the payload
EnhanceNewsData(title, summary) ==
    /\ enhancedNews' = [shown |-> TRUE, title |-> title, summary |-> summary,
                        category |-> CategorizeNews(title, summary),
                        sentiment |-> AnalyzeSentiment(title, summary)]
    /\ lastOp' = "EnhanceNewsData"
    /\ UNCHANGED <<hidden, mobileCryptoApp, priceUpdateInterval, liveIntervals, jobs,
                   mobileDisplay, mobileNews, toasts, paused, lastFetch,
                   alertVars, dashVars>>
    /\ UNCHANGED <<quickAnalysis, mobileAnalysis, detailedAnalysis, pageVars>>

(***************************************************************************)
(* The news page (CryptoNewsApp).  An item is [title, source, summary,     *)
(* published, category, sentiment]; title, source and summary are          *)
(* JavaScript values as above, published is the age of the item in hours   *)
(* or an unparseable date, category and sentiment are "none" on an item    *)
(* of a payload that has not been enhanced.  A title or summary written as *)
(* one element stands for a Japanese sentence.                             *)
(***************************************************************************)
HoursAgo(h) == [t |-> "time", h |-> h]
InvalidDate == [t |-> "invalid", h |-> 0]

NewsItem(title, source, summary, published, category, sentiment) ==
    [title |-> title, source |-> source, summary |-> summary, published |-> published,
     category |-> category, sentiment |-> sentiment]

\* the sampleNews array of CryptoNewsApp.displaySampleNews
SampleNews ==
    <<NewsItem(Str(<<"Bitcoin kakaku ga 50,000 doru no oodai wo toppa">>),
               Str(<<"C", "r", "y", "p", "t", "o", "N", "e", "w", "s", " ",
                     "J", "a", "p", "a", "n">>),
               Str(<<"bittokoin no kakaku ga shinriteki na fushime">>),
               HoursAgo(2), "bitcoin", "positive"),
      NewsItem(Str(<<"iisariamu 2.0 no suteekingu sankasha">>),
               Str(<<"D", "e", "F", "i", " ", "T", "o", "d", "a", "y">>),
               Str(<<"iisariamu 2.0 no suteekingu puuru">>),
               HoursAgo(4), "ethereum", "positive"),
      NewsItem(Str(<<"bei SEC, aratana angou shisan kisei gaidorain">>),
               Str(<<"R", "e", "g", "u", "l", "a", "t", "o", "r", "y", " ",
                     "W", "a", "t", "c", "h">>),
               Str(<<"beikoku shouken torihiki iinkai">>),
               HoursAgo(6), "regulation", "neutral"),
      NewsItem(Str(<<"DeFi no sou rokku kachi (TVL)">>),
               Str(<<"D", "e", "F", "i", " ", "P", "u", "l", "s", "e">>),
               Str(<<"bunsangata kin'yuu purotokoru">>),
               HoursAgo(8), "defi", "positive"),
      NewsItem(Str(<<"Layer 2 soryuushon, gasu dai wo 99% sakugen">>),
               Str(<<"T", "e", "c", "h", " ", "C", "r", "y", "p", "t", "o">>),
               Str(<<"fukusuu no Layer 2 purojekuto">>),
               HoursAgo(10), "technology", "positive"),
      NewsItem(Str(<<"chuuou ginkou dejitaru tsuuka (CBDC)">>),
               Str(<<"G", "l", "o", "b", "a", "l", " ",
                     "F", "i", "n", "a", "n", "c", "e">>),
               Str(<<"sekai kakkoku no chuuou ginkou">>),
               HoursAgo(12), "regulation", "neutral")>>

\* enhanceNewsData: { ...item, category, sentiment, ... } for every item
EnhanceItems(items) ==
    [i \in 1..Len(items) |->
        [items[i] EXCEPT !.category = CategorizeNews(items[i].title, items[i].summary),
                         !.sentiment = AnalyzeSentiment(items[i].title, items[i].summary)]]

\* a card of the container: the title, the source and the summary it shows
\* (item.summary || the placeholder text)
Placeholder == Str(<<"nyuusu shousai wo yomikomichuu...">>)
CreateNewsCard(item) ==
    [title |-> item.title, source |-> item.source,
     summary |-> IF item.summary.t = "undefined" \/ item.summary.s = <<>>
                 THEN Placeholder ELSE item.summary]

InitialContainer == [kind |-> "initial", cards |-> <<>>]
\* showNoResults
ShowNoResults == [kind |-> "noresults", cards |-> <<>>]

\* CryptoNewsApp.displayNews, given this.filteredNews
DisplayNews(filtered) ==
    IF Len(filtered) = 0 THEN ShowNoResults
    ELSE [kind |-> "cards", cards |-> [i \in 1..Len(filtered) |-> CreateNewsCard(filtered[i])]]

\* the filters as the page's HTML has them selected
DefaultFilters == [category |-> "all", source |-> <<"a", "l", "l">>, time |-> "24h"]

\* the switch of applyFilters: the age in hours below which an item is kept
\* (0: new Date(0), every date of this century passes)
TimeThreshold(timeFilter) ==
    CASE timeFilter = "24h" -> 24
      [] timeFilter = "7d" -> 7 * 24
      [] timeFilter = "30d" -> 30 * 24
      [] OTHER -> 0

\* itemTime < timeThreshold (false for an invalid date)
TooOld(item, timeFilter) ==
    /\ item.published.t = "time"
    /\ TimeThreshold(timeFilter) # 0
    /\ item.published.h > TimeThreshold(timeFilter)

CategoryRejects(item, f) == f.category # "all" /\ item.category # f.category

\* item.source.toLowerCase() of an item without source
SourceThrows(item, f) ==
    /\ ~CategoryRejects(item, f)
    /\ f.source # <<"a", "l", "l">>
    /\ item.source.t = "undefined"

\* the callback of this.newsData.filter in applyFilters
FilterKeeps(item, f) ==
    /\ ~CategoryRejects(item, f)
    /\ f.source # <<"a", "l", "l">> => Includes(ToLowerCase(item.source.s), f.source)
    /\ ~TooOld(item, f.time)

ApplyFiltersThrows(data, f) == \E i \in 1..Len(data) : SourceThrows(data[i], f)

FilterNewsReversed(data, f) ==
    LET kept == SelectSeq(data, LAMBDA item : FilterKeeps(item, f))
    IN  [i \in 1..Len(kept) |-> kept[Len(kept) + 1 - i]]

FilterNews(data, f) == SelectSeq(data, LAMBDA item : FilterKeeps(item, f))

NewsInit ==
    /\ cryptoNewsApp = FALSE
    /\ newsData = <<>>
    /\ filteredNews = <<>>
    /\ isLoading = FALSE
    /\ newsJobs = <<>>
    /\ newsFilters = DefaultFilters
    /\ newsContainer = InitialContainer

\* what the rest of the news page's handlers leave alone
NewsFrame ==
    UNCHANGED <<hidden, mobileCryptoApp, priceUpdateInterval, liveIntervals, jobs,
                mobileDisplay, mobileNews, toasts, paused, lastFetch,
                alertVars, dashVars, textVars, tradeVars>>

LoadNewsCalledUnguarded ==
    /\ isLoading' = TRUE
    /\ newsJobs' = Append(newsJobs, "fetch")

\* loadNews up to its first await: the guard, the flag, the request
LoadNewsCalled ==
    IF isLoading THEN UNCHANGED <<isLoading, newsJobs>>
    ELSE /\ isLoading' = TRUE
         /\ newsJobs' = Append(newsJobs, "fetch")

\* DOMContentLoaded of the news page: new CryptoNewsApp(), init(), loadNews()
NewsPageLoaded ==
    /\ ~cryptoNewsApp
    /\ cryptoNewsApp' = TRUE
    /\ newsData' = <<>>
    /\ filteredNews' = <<>>
    /\ isLoading' = TRUE
    /\ newsJobs' = Append(newsJobs, "fetch")
    /\ lastOp' = "NewsPageLoaded"
    /\ UNCHANGED <<newsFilters, newsContainer>>
    /\ NewsFrame

\* CryptoNewsApp.refreshNews up to its await
RefreshNews ==
    /\ cryptoNewsApp
    /\ newsData' = <<>>
    /\ filteredNews' = <<>>
    /\ LoadNewsCalled
    /\ lastOp' = "RefreshNews"
    /\ UNCHANGED <<cryptoNewsApp, newsFilters, newsContainer>>
    /\ NewsFrame

\* CryptoNewsApp.applyFilters with the selects at f
ApplyFilters(f) ==
    /\ newsFilters' = f
    /\ IF ApplyFiltersThrows(newsData, f)
       THEN UNCHANGED <<filteredNews, newsContainer>>
       ELSE /\ filteredNews' = FilterNews(newsData, f)
            /\ newsContainer' = DisplayNews(filteredNews')
    /\ UNCHANGED <<cryptoNewsApp, newsData, isLoading, newsJobs>>
    /\ NewsFrame

\* a change of one of the three selects
FilterChanged(f) ==
    /\ cryptoNewsApp
    /\ f # newsFilters
    /\ \/ f = [newsFilters EXCEPT !.category = f.category]
       \/ f = [newsFilters EXCEPT !.source = f.source]
       \/ f = [newsFilters EXCEPT !.time = f.time]
    /\ ApplyFilters(f)
    /\ lastOp' = "ApplyFilters"

\* CryptoNewsApp.clearFilters
ClearFilters ==
    /\ cryptoNewsApp
    /\ ApplyFilters(DefaultFilters)
    /\ lastOp' = "ClearFilters"

\* the finally block of loadNews, for the call k of newsJobs
LoadNewsFinally(k) ==
    /\ isLoading' = FALSE
    /\ newsJobs' = RemoveAt(newsJobs, k)

\* CryptoNewsApp.displaySampleNews
DisplaySampleNewsFiltered ==
    /\ newsData' = SampleNews
    /\ filteredNews' = FilterNews(newsData', newsFilters)
    /\ newsContainer' = DisplayNews(filteredNews')

DisplaySampleNews ==
    /\ newsData' = SampleNews
    /\ filteredNews' = newsData'
    /\ newsContainer' = DisplayNews(filteredNews')

\* the fetch of loadNews call k settles: o = "ok" (response.ok), "http_error"
\* (a response that is not ok) or "reject" (the fetch threw)
NewsFetchSettles(k, o) ==
    /\ k \in 1..Len(newsJobs)
    /\ newsJobs[k] = "fetch"
    /\ IF o = "ok"
       THEN /\ newsJobs' = [newsJobs EXCEPT ![k] = "json"]
            /\ lastOp' = "NewsFetchOk"
            /\ UNCHANGED <<newsData, filteredNews, newsContainer, isLoading>>
       ELSE /\ DisplaySampleNews
            /\ LoadNewsFinally(k)
            /\ lastOp' = "NewsFetchFailed"
    /\ UNCHANGED <<cryptoNewsApp, newsFilters>>
    /\ NewsFrame

\* what response.json() can give: an array of items, a value that is not an
\* array (newsData.map is not a function), or a rejection
NewsArray(items) == [t |-> "array", items |-> items]
NotAnArray == [t |-> "object", items |-> <<>>]
BadBody == [t |-> "reject", items |-> <<>>]

\* response.json() of loadNews call k settles
NewsBodySettles(k, body) ==
    /\ k \in 1..Len(newsJobs)
    /\ newsJobs[k] = "json"
    /\ IF body.t = "array"
       THEN /\ newsData' = EnhanceItems(body.items)
            /\ filteredNews' = newsData'
            /\ newsContainer' = DisplayNews(filteredNews')
            /\ lastOp' = "NewsBodyParsed"
       ELSE /\ DisplaySampleNews
            /\ lastOp' = "NewsBodyFailed"
    /\ LoadNewsFinally(k)
    /\ UNCHANGED <<cryptoNewsApp, newsFilters>>
    /\ NewsFrame

\* the payloads and the filter values of the model
CoinDesk == Str(<<"C", "o", "i", "n", "D", "e", "s", "k">>)
PayloadItems ==
    <<NewsItem(Str(<<"B", "i", "t", "c", "o", "i", "n", " ", "u", "p">>), CoinDesk,
               Str(<<"r", "a", "l", "l", "y">>), HoursAgo(1), "none", "none"),
      NewsItem(Str(<<"M", "a", "r", "k", "e", "t">>), NoProperty, NoProperty,
               HoursAgo(30), "none", "none"),
      NewsItem(Str(<<"kisei">>), CoinDesk, Str(<<>>), InvalidDate, "none", "none")>>
NewsBodies ==
    {NewsArray(<<>>), NewsArray(<<PayloadItems[1]>>),
     NewsArray(<<PayloadItems[2], PayloadItems[1]>>),
     NewsArray(<<PayloadItems[1], PayloadItems[3], PayloadItems[1]>>),
     NotAnArray, BadBody}
FilterValues ==
    [category : {"all", "bitcoin", "defi"},
     source : {<<"a", "l", "l">>, <<"c", "o", "i", "n", "d", "e", "s", "k">>},
     time : {"24h", "7d", "all"}]

(***************************************************************************)
(* The analysis page (CryptoTradingApp of crypto_app.js).  The analysis    *)
(* text the server returns for a request is written [request, symbol]:     *)
(* the text computed for that request.                                     *)
(***************************************************************************)
NoText == [request |-> 0, symbol |-> "none"]
AnalysisOf(request) == [request |-> request.id, symbol |-> request.symbol]

TradeInit ==
    /\ cryptoApp = FALSE
    /\ currentAnalysis = NoText
    /\ analysisResults = NoText
    /\ analysisStatus = "initial"
    /\ exportShown = FALSE
    /\ analysisJobs = <<>>
    /\ issued = 0
    /\ displayed = {}
    /\ errorAlerts = 0
    /\ systemStatus = "initial"

\* what the handlers of the analysis page leave alone
TradeFrame ==
    UNCHANGED <<hidden, mobileCryptoApp, priceUpdateInterval, liveIntervals, jobs,
                mobileDisplay, mobileNews, toasts, paused, lastFetch,
                alertVars, dashVars, textVars, newsVars>>

\* DOMContentLoaded of the analysis page: the constructor, init() and
\* checkAPIStatus() up to its await
TradePageLoaded ==
    /\ ~cryptoApp
    /\ cryptoApp' = TRUE
    /\ currentAnalysis' = NoText
    /\ systemStatus' = "checking"
    /\ lastOp' = "TradePageLoaded"
    /\ UNCHANGED <<analysisResults, analysisStatus, exportShown, analysisJobs, issued,
                   displayed, errorAlerts>>
    /\ TradeFrame

\* checkAPIStatus after its awaits: updateSystemStatus(status), or
\* updateSystemStatus({online: false}) from the catch block
ApiStatusResponds(online) ==
    /\ systemStatus = "checking"
    /\ systemStatus' = IF online THEN "asServed" ELSE "offline"
    /\ lastOp' = "ApiStatusResponds"
    /\ UNCHANGED <<cryptoApp, currentAnalysis, analysisResults, analysisStatus,
                   exportShown, analysisJobs, issued, displayed, errorAlerts>>
    /\ TradeFrame

\* validateFormData
ValidateFormData(form) == form.symbol # "" /\ form.agents > 0

\* the submit event of the analysis form (the submit button, or Ctrl+Enter):
\* handleAnalysisSubmit, and runAnalysis up to its await
HandleAnalysisSubmit(form) ==
    /\ cryptoApp
    /\ IF ValidateFormData(form)
       THEN /\ issued < MaxAnalyses
            /\ issued' = issued + 1
            /\ analysisStatus' = "analyzing"
            /\ analysisJobs' = Append(analysisJobs,
                                      [id |-> issued + 1, symbol |-> form.symbol,
                                       stage |-> "fetch"])
            /\ UNCHANGED errorAlerts
       ELSE /\ errorAlerts < MaxAnalyses
            /\ errorAlerts' = errorAlerts + 1
            /\ UNCHANGED <<issued, analysisStatus, analysisJobs>>
    /\ lastOp' = "HandleAnalysisSubmit"
    /\ UNCHANGED <<cryptoApp, currentAnalysis, analysisResults, exportShown, displayed,
                   systemStatus>>
    /\ TradeFrame

\* the catch block of runAnalysis, and the else branch of result.success
AnalysisFailed ==
    /\ errorAlerts' = errorAlerts + 1
    /\ analysisStatus' = "error"
    /\ UNCHANGED <<currentAnalysis, analysisResults, exportShown, displayed>>

\* the fetch of runAnalysis call k settles: with a response of any status
\* (ok = TRUE), or with a rejection
AnalysisFetchSettles(k, ok) ==
    /\ k \in 1..Len(analysisJobs)
    /\ analysisJobs[k].stage = "fetch"
    /\ IF ok
       THEN /\ analysisJobs' = [analysisJobs EXCEPT ![k].stage = "json"]
            /\ UNCHANGED <<currentAnalysis, analysisResults, analysisStatus, exportShown,
                           displayed, errorAlerts>>
       ELSE /\ errorAlerts < MaxAnalyses
            /\ AnalysisFailed
            /\ analysisJobs' = RemoveAt(analysisJobs, k)
    /\ lastOp' = "AnalysisFetchSettles"
    /\ UNCHANGED <<cryptoApp, issued, systemStatus>>
    /\ TradeFrame

\* displayAnalysisResults(analysisText)
DisplayAnalysisResults(analysisText) ==
    /\ analysisResults' = analysisText
    /\ currentAnalysis' = analysisText

\* response.json() of runAnalysis call k settles: body = "success"
\* ({success: true, analysis}), "failure" ({success: false, error}) or
\* "reject" (the body is not JSON)
AnalysisBodySettles(k, body) ==
    /\ k \in 1..Len(analysisJobs)
    /\ analysisJobs[k].stage = "json"
    /\ IF body = "success"
       THEN /\ DisplayAnalysisResults(AnalysisOf(analysisJobs[k]))
            /\ analysisStatus' = "completed"
            /\ exportShown' = TRUE
            /\ displayed' = displayed \cup {analysisJobs[k].id}
            /\ UNCHANGED errorAlerts
       ELSE /\ errorAlerts < MaxAnalyses
            /\ AnalysisFailed
    /\ analysisJobs' = RemoveAt(analysisJobs, k)
    /\ lastOp' = "AnalysisBodySettles"
    /\ UNCHANGED <<cryptoApp, issued, systemStatus>>
    /\ TradeFrame

\* the 5000 ms timer of an error alert, or its close button
ErrorAlertRemoved ==
    /\ errorAlerts > 0
    /\ errorAlerts' = errorAlerts - 1
    /\ lastOp' = "ErrorAlertRemoved"
    /\ UNCHANGED <<cryptoApp, currentAnalysis, analysisResults, analysisStatus,
                   exportShown, analysisJobs, issued, displayed, systemStatus>>
    /\ TradeFrame

\* what window.exportResults writes: app.currentAnalysis, when there is one
ExportResults == currentAnalysis

\* the forms of the model
AnalysisForms == [symbol : {"", "BTC", "ETH"}, agents : {0, 2}]

\* every page before its DOMContentLoaded
Init ==
    /\ hidden \in BOOLEAN
    /\ MobileInit
    /\ AlertInit
    /\ DashInit
    /\ TextInit
    /\ NewsInit
    /\ TradeInit

(***************************************************************************)
(* The mobile page up to and after a pause: page load, interval firings    *)
(* and the page going hidden, with a network whose answers differ from one *)
(* request to the next.                                                    *)
(***************************************************************************)
PausePrimaryOutcomes ==
    {Ok(Num(50000), Num(25)), Ok(Num(52000), Num(-3)), Failure("http_error")}
PauseFallbackOutcomes == {Ok(Num(49000), Num(-10)), Failure("reject")}

PauseNext ==
    \/ DOMContentLoaded
    \/ PageHidden
    \/ \E h \in liveIntervals : PriceTick(h)
    \/ \E j \in BagToSet(jobs) : \E o \in PausePrimaryOutcomes : PrimaryResponds(j, o)
    \/ \E j \in BagToSet(jobs) : \E o \in PauseFallbackOutcomes : FallbackResponds(j, o)
    \/ \E j \in BagToSet(jobs) : \E o \in {"ok"} : NewsResponds(j, o)

SpecPause == Init /\ [][PauseNext]_vars

(***************************************************************************)
(* The first load of either price page (one page per tab), with a network  *)
(* that answers each price request in any of the ways it can.              *)
(***************************************************************************)
PriceFetchNext ==
    \/ dashApp = "none" /\ DOMContentLoaded
    \/ ~mobileCryptoApp /\ DashLoaded
    \/ \E j \in BagToSet(jobs) : \E o \in PrimaryOutcomes : PrimaryResponds(j, o)
    \/ \E j \in BagToSet(jobs) : \E o \in FallbackOutcomes : FallbackResponds(j, o)
    \/ \E j \in BagToSet(jobs) : \E o \in {"ok"} : NewsResponds(j, o)
    \/ \E i \in 1..Len(dashJobs) : \E o \in PrimaryOutcomes : DashPrimaryResponds(i, o)
    \/ \E i \in 1..Len(dashJobs) : \E o \in FallbackOutcomes : DashFallbackResponds(i, o)
    \/ \E i \in 1..Len(dashJobs) : \E o \in {"ok"} : DashNewsResponds(i, o)

SpecPriceFetch == Init /\ [][PriceFetchNext]_vars

(***************************************************************************)
(* The analysis page over its lifetime: submits of the form, with a server *)
(* that answers each request in any of the ways it can, in any order.      *)
(***************************************************************************)
AnalysisNext ==
    \/ TradePageLoaded
    \/ \E online \in BOOLEAN : ApiStatusResponds(online)
    \/ \E form \in AnalysisForms : HandleAnalysisSubmit(form)
    \/ \E k \in 1..Len(analysisJobs) : \E ok \in BOOLEAN : AnalysisFetchSettles(k, ok)
    \/ \E k \in 1..Len(analysisJobs) : \E body \in {"success", "failure", "reject"} :
          AnalysisBodySettles(k, body)
    \/ ErrorAlertRemoved

SpecAnalysis == Init /\ [][AnalysisNext]_vars

(***************************************************************************)
(* The news page over its lifetime: loads, refreshes and filter changes,   *)
(* with a network that answers each request in any of the ways it can.     *)
(***************************************************************************)
NewsPageNext ==
    \/ NewsPageLoaded
    \/ RefreshNews
    \/ \E f \in FilterValues : FilterChanged(f)
    \/ ClearFilters
    \/ \E k \in 1..Len(newsJobs) : \E o \in NewsOutcomes : NewsFetchSettles(k, o)
    \/ \E k \in 1..Len(newsJobs) : \E body \in NewsBodies : NewsBodySettles(k, body)

NewsResponses ==
    \/ \E k \in 1..Len(newsJobs) : \E o \in NewsOutcomes : NewsFetchSettles(k, o)
    \/ \E k \in 1..Len(newsJobs) : \E body \in NewsBodies : NewsBodySettles(k, body)

SpecNewsPage == Init /\ [][NewsPageNext]_vars /\ WF_vars(NewsResponses)

(***************************************************************************)
(* The dashboard page while its first load runs: the network answers each  *)
(* request of loadInitialData in any of the ways it can.                   *)
(***************************************************************************)
DashFetchNext ==
    \/ DashLoaded
    \/ \E i \in 1..Len(dashJobs) : \E o \in PrimaryOutcomes : DashPrimaryResponds(i, o)
    \/ \E i \in 1..Len(dashJobs) : \E o \in FallbackOutcomes : DashFallbackResponds(i, o)
    \/ \E i \in 1..Len(dashJobs) : \E o \in NewsOutcomes : DashNewsResponds(i, o)
    \/ \E i \in 1..Len(notifications) : NotificationExpire(i)
    \/ \E i \in 1..Len(notifications) : NotificationRemove(i)

SpecDashFetch == Init /\ [][DashFetchNext]_vars

(***************************************************************************)
(* The dashboard page over its lifetime: interval firings and saves of the *)
(* settings, with a network that answers every request with the same       *)
(* successful body.                                                        *)
(***************************************************************************)
DashSchedNext ==
    \/ DashLoaded
    \/ \E i \in 1..Len(dashJobs) : \E o \in {Ok(Num(50000), Num(25))} :
          DashPrimaryResponds(i, o)
    \/ \E i \in 1..Len(dashJobs) : \E o \in {"ok"} : DashNewsResponds(i, o)
    \/ \E k \in 1..Len(dashIntervals) : DashTick(k)
    \/ \E f \in Frequencies : SaveSettings(f)
    \/ \E i \in 1..Len(notifications) : NotificationExpire(i)
    \/ \E i \in 1..Len(notifications) : NotificationRemove(i)

SpecDashSched == Init /\ [][DashSchedNext]_vars

(***************************************************************************)
(* The mobile page while its first refresh runs: the page is loaded and    *)
(* the network answers each request of loadInitialData in any of the ways  *)
(* it can.                                                                 *)
(***************************************************************************)
FetchNext ==
    \/ DOMContentLoaded
    \/ \E j \in BagToSet(jobs) : \E o \in PrimaryOutcomes : PrimaryResponds(j, o)
    \/ \E j \in BagToSet(jobs) : \E o \in FallbackOutcomes : FallbackResponds(j, o)
    \/ \E j \in BagToSet(jobs) : \E o \in NewsOutcomes : NewsResponds(j, o)

SpecFetch == Init /\ [][FetchNext]_vars

(***************************************************************************)
(* The mobile page over its lifetime: visibility and connectivity events,  *)
(* interval firings and user refreshes, with a network that answers every  *)
(* request with the same successful body.                                  *)
(***************************************************************************)
SchedPrimaryOutcomes == {Ok(Num(50000), Num(25))}
SchedNewsOutcomes == {"ok"}

SchedNext ==
    \/ DOMContentLoaded
    \/ PageHidden
    \/ PageVisible
    \/ Online
    \/ Offline
    \/ PullToRefresh
    \/ RefreshNewsClick
    \/ \E h \in liveIntervals : PriceTick(h)
    \/ \E j \in BagToSet(jobs) : \E o \in SchedPrimaryOutcomes : PrimaryResponds(j, o)
    \/ \E j \in BagToSet(jobs) : \E o \in SchedNewsOutcomes : NewsResponds(j, o)
    \/ \E i \in 1..Len(toasts) : ToastExpire(i)
    \/ \E i \in 1..Len(toasts) : ToastRemove(i)

SpecSched == Init /\ [][SchedNext]_vars

(***************************************************************************)
(* The mobile page over pause and resume: page load, visibility changes,   *)
(* connectivity restored and interval firings, with the same network.      *)
(***************************************************************************)
ResumeNext ==
    \/ DOMContentLoaded
    \/ PageHidden
    \/ PageVisible
    \/ Online
    \/ \E h \in liveIntervals : PriceTick(h)
    \/ \E j \in BagToSet(jobs) : \E o \in SchedPrimaryOutcomes : PrimaryResponds(j, o)
    \/ \E j \in BagToSet(jobs) : \E o \in SchedNewsOutcomes : NewsResponds(j, o)
    \/ \E i \in 1..Len(toasts) : ToastExpire(i)
    \/ \E i \in 1..Len(toasts) : ToastRemove(i)

SpecResume == Init /\ [][ResumeNext]_vars

(***************************************************************************)
(* The alert dialog of the mobile page over page loads and reloads.        *)
(***************************************************************************)
AlertNext ==
    \/ DOMContentLoaded
    \/ PageUnload
    \/ \E c \in CryptoInputs : \E k \in ConditionInputs : \E p \in PriceInputs :
          \E now \in Times : \E w \in BOOLEAN : SaveAlert(c, k, p, now, w)
    \/ \E i \in 1..Len(toasts) : ToastExpire(i)
    \/ \E i \in 1..Len(toasts) : ToastRemove(i)

SpecAlerts == Init /\ [][AlertNext]_vars

(***************************************************************************)
(* The same, with the storage key also written from outside the page.      *)
(***************************************************************************)
StorageNext ==
    \/ DOMContentLoaded
    \/ PageUnload
    \/ \E content \in ForeignContents : StorageWrittenElsewhere(content)
    \/ \E c \in CryptoInputs : \E k \in ConditionInputs : \E p \in PriceInputs :
          \E now \in Times : \E w \in BOOLEAN : SaveAlert(c, k, p, now, w)
    \/ \E i \in 1..Len(toasts) : ToastExpire(i)
    \/ \E i \in 1..Len(toasts) : ToastRemove(i)

SpecStorage == Init /\ [][StorageNext]_vars

(***************************************************************************)
(* The mobile page with alerts set while quotes arrive: page load, the      *)
(* alert dialog, and the network answering each request successfully.       *)
(***************************************************************************)
EvalNext ==
    \/ DOMContentLoaded
    \/ \E c \in CryptoInputs : \E k \in ConditionInputs : \E p \in PriceInputs :
          \E now \in Times : \E w \in BOOLEAN : SaveAlert(c, k, p, now, w)
    \/ \E j \in BagToSet(jobs) : \E o \in SchedPrimaryOutcomes : PrimaryResponds(j, o)
    \/ \E j \in BagToSet(jobs) : \E o \in SchedNewsOutcomes : NewsResponds(j, o)
    \/ \E i \in 1..Len(toasts) : ToastExpire(i)
    \/ \E i \in 1..Len(toasts) : ToastRemove(i)

SpecEval == Init /\ [][EvalNext]_vars

(***************************************************************************)
(* Toasts and notifications in time: one of the two pages is loaded in the  *)
(* tab, handlers show messages, close buttons are clicked, time passes and  *)
(* every timer fires when it is due.  The event loop runs a due timer, and  *)
(* time goes on.                                                            *)
(***************************************************************************)
NotifyTimers ==
    \/ \E i \in 1..Len(toasts) : ToastDue(toasts[i]) /\ ToastExpire(i)
    \/ \E i \in 1..Len(toasts) : ToastDue(toasts[i]) /\ ToastRemove(i)
    \/ \E i \in 1..Len(toasts) : ToastDue(toasts[i]) /\ ToastTimerLapsed(i)
    \/ \E i \in 1..Len(notifications) :
          NotificationDue(notifications[i]) /\ NotificationExpire(i)
    \/ \E i \in 1..Len(notifications) :
          NotificationDue(notifications[i]) /\ NotificationRemove(i)
    \/ \E i \in 1..Len(notifications) :
          NotificationDue(notifications[i]) /\ NotificationTimerLapsed(i)

NotifyNext ==
    \/ dashApp = "none" /\ DOMContentLoaded
    \/ ~mobileCryptoApp /\ DashLoaded
    \/ Offline
    \/ RunDetailedAnalysisNoSelection
    \/ \E i \in 1..Len(toasts) : ToastDismiss(i)
    \/ \E i \in 1..Len(notifications) : NotificationDismiss(i)
    \/ TimePasses(MaxDelay)
    \/ NotifyTimers

SpecNotify ==
    /\ Init
    /\ [][NotifyNext]_vars
    /\ WF_vars(TimePasses(MaxDelay))
    /\ WF_vars(NotifyTimers)

(***************************************************************************)
(* The analysis summaries: one of the two pages is loaded in the tab and    *)
(* shows the metrics of an analysis text, one analysis per page load: what  *)
(* is shown depends on the text alone.                                      *)
(***************************************************************************)
ExtractNext ==
    \/ dashApp = "none" /\ DOMContentLoaded
    \/ ~mobileCryptoApp /\ DashLoaded
    \/ /\ dashApp # "none" /\ ~quickAnalysis.shown
       /\ \E text \in AnalysisTexts : DisplayQuickAnalysisResults(text)
    \/ /\ mobileCryptoApp /\ ~mobileAnalysis.shown
       /\ \E text \in AnalysisTexts : DisplayMobileAnalysisResults(text)

SpecExtract == Init /\ [][ExtractNext]_vars

(***************************************************************************)
(* The detailed analysis of the dashboard, one analysis per page load.      *)
(***************************************************************************)
SectionsNext ==
    \/ DashLoaded
    \/ /\ ~detailedAnalysis.shown
       /\ \E text \in SectionTexts : DisplayDetailedAnalysisResults(text)

SpecSections == Init /\ [][SectionsNext]_vars

(***************************************************************************)
(* The news page handling the items of a payload, one after the other.      *)
(***************************************************************************)
NewsNext ==
    \E title \in NewsTitles : \E summary \in NewsSummaries :
        EnhanceNewsData(title, summary)

SpecNews == Init /\ [][NewsNext]_vars

(***************************************************************************)
(* Properties.                                                             *)
(***************************************************************************)
PrimaryFailed(f) == f.primary.kind \in FailureKinds
FallbackRequests(f) ==
    Cardinality({k \in 1..Len(f.requests) : f.requests[k] = "fallback"})

\* C1: a price fetch requests the fallback endpoint if and only if its
\* primary request ended in a non-success response or a transport failure,
\* and then it requests it exactly once, after the primary request.
C1_FallbackIffPrimaryFailed ==
    lastFetch.app # "none" =>
        /\ PrimaryFailed(lastFetch) <=> (FallbackRequests(lastFetch) > 0)
        /\ PrimaryFailed(lastFetch) => lastFetch.requests = <<"primary", "fallback">>

\* C2: a price fetch whose primary request failed and that got no successful
\* fallback answer completes with the Failure value (no quote), and not with
\* an exception or a rejected promise.
C2_BothFailGiveFailureValue ==
    (lastFetch.app # "none" /\ PrimaryFailed(lastFetch) /\ lastFetch.fallback.kind # "ok")
        => (lastFetch.result.isNull /\ ~lastFetch.thrown)

\* C3: a quote obtained from the fallback endpoint carries the fallback's
\* price and change and tier = fallback; a quote obtained from the primary
\* endpoint carries the primary's price and change and tier = primary.
C3_QuoteCarriesValuesAndTier ==
    (lastFetch.app # "none" /\ ~lastFetch.result.isNull) =>
        /\ (PrimaryFailed(lastFetch) /\ lastFetch.fallback.kind = "ok") =>
              /\ lastFetch.result.price_usd = lastFetch.fallback.price
              /\ lastFetch.result.price_change_24h = lastFetch.fallback.change
              /\ QuoteTier(lastFetch.result) = "fallback"
        /\ lastFetch.primary.kind = "ok" =>
              /\ lastFetch.result.price_usd = lastFetch.primary.price
              /\ lastFetch.result.price_change_24h = lastFetch.primary.change
              /\ QuoteTier(lastFetch.result) = "primary"

\* C4: when both tiers have failed for an entity, the caller shows the
\* placeholder in that entity's price card and creates a notification of
\* severity error, and no rejection is left unhandled.
C4_FailureShowsPlaceholderAndError ==
    /\ ~unhandled
    /\ (lastOp = "FallbackResponds" /\ lastFetch.result.isNull) =>
          /\ mobileDisplay[lastFetch.crypto] = [price |-> Skeleton, change |-> Skeleton]
          /\ ErrorToasts(toasts) >= 1

\* a refreshData call has run up to its first await: its loadInitialData is
\* in flight with its first requests outstanding
RefreshTriggered == BagIn(LoadInitialData("refresh"), jobs)

\* this step started exactly one refreshData call and no other call tree
OneRefreshStarted ==
    jobs' = jobs (+) SetToBag({LoadInitialData("refresh")})

\* the interval the app holds a handle of is active
TimerRunning == priceUpdateInterval \in liveIntervals

C6_NoTimerWhilePaused ==
    /\ Cardinality(liveIntervals) <= 1
    /\ paused => liveIntervals = {}
    /\ lastOp = "PriceTick" => ~paused

\* the intervals of a task that are active on the dashboard page
DashTimers(task) == {k \in 1..Len(dashIntervals) : dashIntervals[k].task = task}

\* C7: after any number of saves of the settings each task has exactly one
\* active timer, and it ticks at the most recently configured interval.
C7_OneTimerAtLatestInterval ==
    Len(dashIntervals) > 0 =>
        /\ Cardinality(DashTimers("price")) = 1
        /\ Cardinality(DashTimers("news")) = 1
        /\ \A k \in DashTimers("price") : dashIntervals[k].ms = updateInterval
        /\ \A k \in DashTimers("news") : dashIntervals[k].ms = updateInterval * 2

\* the call trees with a price refresh (a news refresh) in flight
BagWhere(B, Keep(_)) == [j \in {x \in BagToSet(B) : Keep(x)} |-> B[j]]
PriceRunning(j) == j.pi \in 1..Len(MobileCryptos)
NewsRunning(j) == j.news = "fetching"
PriceInFlight == BagCardinality(BagWhere(jobs, PriceRunning))
NewsInFlight == BagCardinality(BagWhere(jobs, NewsRunning))

\* C8: per refresh task at most one refresh is in flight at any time.
C8_OneRefreshInFlight ==
    /\ PriceInFlight <= 1
    /\ NewsInFlight <= 1

\* an alert built by saveAlert from inputs it accepts
ValidAlertInput(a) ==
    /\ AlertAccepted(a.crypto, a.condition, a.price)
    /\ a.created = [t |-> "Date", ms |-> a.id]

ValidAlert(a) ==
    /\ a.crypto # ""
    /\ a.condition # ""
    /\ a.price.t = "num"
    /\ a.price.v > 0

\* C9: add rejects every alert without symbol, without condition or without
\* a positive threshold price, leaving both lists as they were: neither the
\* in-memory list nor the persisted list ever holds such an alert.
C9_InvalidAlertsRejected ==
    /\ [](\A i \in 1..Len(alerts) : ValidAlert(alerts[i]))
    /\ [](\A i \in 1..Len(storage.items) : ValidAlert(storage.items[i]))
    /\ [][lastOp' = "SaveAlertRejected" => UNCHANGED <<alerts, storage>>]_vars

\* C10 as claimed: the list read back from durable storage equals the
\* in-memory list, and an accepted alert is the last element, active.
C10_PersistedEqualsInMemory ==
    mobileCryptoApp =>
        /\ LoadAlerts(storage) = alerts
        /\ lastOp = "SaveAlertAccepted" => alerts[Len(alerts)].active

\* C10, amended: an accepted alert is appended as the last element with
\* active = true and the earlier alerts stay as they were; unless the last
\* write to storage threw, the list read back from storage holds the same
\* alerts in the same order, with `created` as a string instead of a Date;
\* a write that throws leaves the persisted list as it was.
C10_AppendedAndPersistedAsJson ==
    /\ [](mobileCryptoApp /\ lastWriteOk =>
              LoadAlerts(storage) = StringifyItems(alerts))
    /\ [][lastOp' = "SaveAlertAccepted" =>
              /\ Len(alerts') = Len(alerts) + 1
              /\ SubSeq(alerts', 1, Len(alerts)) = alerts
              /\ alerts'[Len(alerts')].active
              /\ ValidAlertInput(alerts'[Len(alerts')])
              /\ ~lastWriteOk' => storage' = storage]_vars

\* C10 witness: two alerts were accepted and written, and the page was
\* loaded again
C10_Witness ==
    /\ lastOp = "DOMContentLoaded"
    /\ Len(alerts) = 2
    /\ alerts[1].created.t = "string"

\* C11: whatever the storage key holds (absent, not parseable, JSON that is
\* not a list), the page loads with an empty alert list and a valid add then
\* succeeds: this.alerts is always an array, it is empty after a load from
\* content that is not a list, and no add throws.
C11_CorruptStorageLoadsEmpty ==
    /\ alertsType = "array"
    /\ (lastOp = "DOMContentLoaded" /\ storage.t # "list") => alerts = <<>>
    /\ lastOp # "SaveAlertThrew"

\* the condition of alert a holds for a quote of `crypto` at `price`
ConditionHolds(a, crypto, price) ==
    /\ a.active
    /\ a.crypto = crypto
    /\ a.price.t = "num"
    /\ \/ a.condition = "above" /\ price >= a.price.v
       \/ a.condition = "below" /\ price <= a.price.v

QuoteMatches(a) == ConditionHolds(a, lastFetch.crypto, lastFetch.result.price_usd.v)

\* C12: every successfully fetched quote is evaluated against the alert
\* list: the alerts reported for it are exactly the active alerts of the
\* quote's symbol whose condition holds at the quote's price, in list order.
C12_QuoteEvaluatedAgainstAlerts ==
    (/\ lastOp = "PrimaryResponds"
     /\ ~lastFetch.result.isNull
     /\ lastFetch.result.price_usd.t = "num")
        => LoadAlertStatus = SelectSeq(alerts, QuoteMatches)

\* every element of ts that is attached satisfies P
AllAttached(ts, P(_)) == \A i \in 1..Len(ts) : IsAttached(ts[i]) => P(ts[i])

GoneAtFiveSeconds(t) == t.age < 5000 \/ (t.age = 5000 /\ t.phase = "shown")

\* the handler that ran last showed a message as the newest element of ts
ShownLast(ts) == Len(ts) > 0 /\ ts[Len(ts)] = Toast("warning")

ToastInTime(t) == t.age <= 3300 /\ (t.phase = "shown" => t.age <= 3000)
NotificationInTime(t) == t.age <= 5300 /\ (t.phase = "shown" => t.age <= 5000)

OneRetired(before, after) ==
    \E k \in 1..Len(Attached(before)) : Attached(after) = RemoveAt(Attached(before), k)

\* C14: every call that shows a message adds one entry of its own, also next
\* to an identical one, and leaves the others as they were; an expiry or a
\* click on a close button retires exactly one message and leaves all others
\* present; the timer of a message that was dismissed changes nothing.
C14_IndependentNotifications ==
    /\ [][lastOp' = "Offline" => toasts' = Append(toasts, Toast("warning"))]_vars
    /\ [][lastOp' = "RunDetailedAnalysis" =>
              notifications' = Append(notifications, Toast("warning"))]_vars
    /\ [][lastOp' \in {"ToastRemove", "ToastDismiss"} =>
              /\ OneRetired(toasts, toasts')
              /\ Len(toasts') >= Len(toasts) - 1]_vars
    /\ [][lastOp' \in {"NotificationRemove", "NotificationDismiss"} =>
              /\ OneRetired(notifications, notifications')
              /\ Len(notifications') >= Len(notifications) - 1]_vars
    /\ [][lastOp' \in {"ToastExpire", "ToastTimerLapsed"} =>
              Len(Attached(toasts')) = Len(Attached(toasts))]_vars
    /\ [][lastOp' = "ToastTimerLapsed" => Attached(toasts') = Attached(toasts)]_vars
    /\ [][lastOp' \in {"NotificationExpire", "NotificationTimerLapsed"} =>
              Len(Attached(notifications')) = Len(Attached(notifications))]_vars
    /\ [][lastOp' = "NotificationTimerLapsed" =>
              Attached(notifications') = Attached(notifications)]_vars

\* C14 witness: of two identical toasts shown at the same instant one was
\* dismissed; its timer has fired and the other toast is still shown
C14_Witness ==
    /\ lastOp = "ToastTimerLapsed"
    /\ Len(toasts) = 1
    /\ toasts[1] = [Toast("warning") EXCEPT !.age = 3000]

\* the analyses that were shown, of either page
ShownAnalyses == {a \in {quickAnalysis, mobileAnalysis} : a.shown}

Labels(metrics) == [i \in 1..Len(metrics) |-> metrics[i].label]
MetricOf(metrics, label) ==
    metrics[CHOOSE i \in 1..Len(metrics) : metrics[i].label = label]
\* the word of a value: its last element (a mobile value starts with an emoji)
WordOf(metric) == metric.value[Len(metric.value)]
Occurs(text, keywords) == \E i \in 1..Len(text) : text[i] \in keywords

\* C15: for every text the metrics are at most one price, at most one 24h
\* change, exactly one sentiment and exactly one recommendation, in this
\* order.
C15_MetricsInFixedOrder ==
    \A a \in ShownAnalyses :
        Labels(a.metrics) \in {<<"sentiment", "recommendation">>,
                               <<"price", "sentiment", "recommendation">>,
                               <<"change24h", "sentiment", "recommendation">>,
                               <<"price", "change24h", "sentiment", "recommendation">>}

\* C15 witness: the dashboard shows all four metrics of a text
C15_Witness ==
    /\ quickAnalysis.shown
    /\ Len(quickAnalysis.metrics) = 4

\* the sentiment the claim states for a text
ClaimedSentiment(text) ==
    IF Occurs(text, {"POSITIVE", "pojitibu"}) THEN "pojitibu"
    ELSE IF Occurs(text, {"NEGATIVE", "negatibu"}) THEN "negatibu"
    ELSE "nyutoraru"

\* C16: the sentiment metric is positive whenever the text has a positive
\* marker, negative when it has a negative marker and no positive one,
\* neutral when it has neither.
C16_SentimentByMarkers ==
    \A a \in ShownAnalyses :
        WordOf(MetricOf(a.metrics, "sentiment")) = ClaimedSentiment(a.text)

\* C16 witness: the mobile page shows the sentiment of a text that has a
\* positive and a negative marker
C16_Witness ==
    /\ mobileAnalysis.shown
    /\ Occurs(mobileAnalysis.text, {"POSITIVE", "pojitibu"})
    /\ Occurs(mobileAnalysis.text, {"NEGATIVE", "negatibu"})

\* the classification a class name of either page stands for
Classification(class) ==
    CASE class \in {"sentiment-positive", "positive"} -> "positive"
      [] class \in {"sentiment-negative", "negative"} -> "negative"
      [] class = "sentiment-neutral" -> "neutral"
      [] OTHER -> "none"

\* the recommendation the claim states for a text: its word and classification
ClaimedRecommendation(text) ==
    IF Occurs(text, {"BUY", "kai"}) THEN <<"BUY", "positive">>
    ELSE IF Occurs(text, {"SELL", "uri"}) THEN <<"SELL", "negative">>
    ELSE <<"HOLD", "neutral">>

Recommendation(metrics) ==
    <<WordOf(MetricOf(metrics, "recommendation")),
      Classification(MetricOf(metrics, "recommendation").class)>>

DollarNumberAt(text, i) == text[i] = "$" /\ i < Len(text) /\ text[i + 1] \in Digits

\* the last position of the number whose digits end at position a: further
\* groups of a thousands separator and digits, then a fractional part
RECURSIVE NumberEnd(_, _)
NumberEnd(text, a) ==
    IF At(text, a + 1, ",") /\ a + 2 <= Len(text) /\ text[a + 2] \in Digits
    THEN NumberEnd(text, RunEnd(text, a + 2, Digits))
    ELSE IF At(text, a + 1, ".") /\ a + 2 <= Len(text) /\ text[a + 2] \in Digits
    THEN RunEnd(text, a + 2, Digits)
    ELSE a

\* the first $-prefixed number of a text as written, <<>> when it has none
FirstDollarNumber(text) ==
    LET starts == {i \in 1..Len(text) : DollarNumberAt(text, i)}
    IN  IF starts = {} THEN <<>>
        ELSE LET i == CHOOSE s \in starts : \A k \in starts : s <= k
             IN  SubSeq(text, i, NumberEnd(text, RunEnd(text, i + 1, Digits)))

\* C18: the price metric's value is the first $-prefixed number of the text
\* exactly as written, nothing else included; a text without a $-prefixed
\* number yields no price metric.
C18_PriceIsFirstDollarNumber ==
    \A a \in ShownAnalyses :
        IF FirstDollarNumber(a.text) = <<>>
        THEN "price" \notin {a.metrics[i].label : i \in 1..Len(a.metrics)}
        ELSE /\ a.metrics[1].label = "price"
             /\ a.metrics[1].value = FirstDollarNumber(a.text)

\* a line of the text starts with the heading marker
HasHeadingLine(text) ==
    \E i \in 1..(Len(text) - 1) :
        /\ text[i] = "#"
        /\ text[i + 1] = "#"
        /\ i = 1 \/ text[i - 1] = "nl"

\* C19: a text with no heading marker line gives exactly one section with
\* the fallback title, no metrics and the whole text as its body, every
\* newline of the text written as a line break.
C19_NoHeadingGivesOneSection ==
    (detailedAnalysis.shown /\ ~HasHeadingLine(detailedAnalysis.text)) =>
        LET sections == detailedAnalysis.sections
            text == detailedAnalysis.text
        IN  /\ Len(sections) = 1
            /\ sections[1].title = FallbackTitle
            /\ sections[1].metrics = <<>>
            /\ Len(sections[1].content) = Len(text)
            /\ \A i \in 1..Len(text) :
                  sections[1].content[i] = IF text[i] = "nl" THEN "<br>" ELSE text[i]

\* C19 witness: a text of several lines with a # and a metric-like line but
\* no heading marker line was split
C19_Witness ==
    /\ detailedAnalysis.shown
    /\ ~HasHeadingLine(detailedAnalysis.text)
    /\ detailedAnalysis.text = <<"#", "nl", "$", ":">>

\* a property of the item contains the term, compared case-insensitively
ContainsTerm(v, term) == v.t = "string" /\ Includes(ToLowerCase(v.s), term)

\* the title or the summary of the item contains a term of topic k
TopicOccurs(k) ==
    \E term \in Topics[k].terms :
        ContainsTerm(enhancedNews.title, term) \/ ContainsTerm(enhancedNews.summary, term)

\* C20: the category of a news item is the first of bitcoin, ethereum, defi,
\* regulation, technology for which the title or summary contains one of the
\* topic's terms, compared case-insensitively, and general when none occurs.
C20_CategoryIsFirstTopic ==
    enhancedNews.shown =>
        /\ \A k \in 1..Len(Topics) :
              (TopicOccurs(k) /\ \A h \in 1..(k - 1) : ~TopicOccurs(h))
                 => enhancedNews.category = Topics[k].category
        /\ (\A k \in 1..Len(Topics) : ~TopicOccurs(k)) => enhancedNews.category = "general"

\* the number of places of the text where the word stands
Occurrences(text, word) ==
    Cardinality({i \in 1..(Len(text) - Len(word) + 1) :
                    SubSeq(text, i, i + Len(word) - 1) = word})

RECURSIVE OccurrencesOfAll(_, _, _)
OccurrencesOfAll(words, k, text) ==
    IF k > Len(words) THEN 0
    ELSE Occurrences(text, words[k]) + OccurrencesOfAll(words, k + 1, text)

NewsText == ToLowerCase(enhancedNews.title.s \o <<" ">> \o enhancedNews.summary.s)

\* C21: the sentiment of a news item with a title and a summary compares the
\* number of occurrences of positive words in title + summary with the number
\* of occurrences of negative words, a word that occurs twice counting
\* twice: positive when there are more positive occurrences, negative when
\* there are more negative ones, neutral on a tie.
C21_SentimentByOccurrences ==
    (enhancedNews.shown /\ enhancedNews.title.t = "string"
                        /\ enhancedNews.summary.t = "string") =>
        LET pos == OccurrencesOfAll(PositiveWords, 1, NewsText)
            neg == OccurrencesOfAll(NegativeWords, 1, NewsText)
        IN  enhancedNews.sentiment =
                IF pos > neg THEN "positive"
                ELSE IF neg > pos THEN "negative"
                ELSE "neutral"


\* C22: when a load of the news page ends in a response that is not a
\* success or in a transport failure, the container shows the fixed sample:
\* its six items in their order, each with its title, source and summary,
\* and nothing else.
C22_FailureShowsSample ==
    lastOp = "NewsFetchFailed" =>
        /\ newsContainer.kind = "cards"
        /\ Len(newsContainer.cards) = 6
        /\ Len(SampleNews) = 6
        /\ \A i \in 1..6 :
              /\ newsContainer.cards[i].title = SampleNews[i].title
              /\ newsContainer.cards[i].source = SampleNews[i].source
              /\ newsContainer.cards[i].summary = SampleNews[i].summary

\* a failed load while the selects hold filters that most of the sample
\* does not pass
C22_Witness ==
    /\ lastOp = "NewsFetchFailed"
    /\ newsFilters.category = "defi"
    /\ newsFilters.source # <<"a", "l", "l">>
    /\ Len(newsContainer.cards) = 6

\* the fetch calls suspended at their fallback request, and how many
AtFallback(js) == {j \in js : j.stage = "fallback"}
MobileFallbackCalls(js) == BagCardinality([j \in AtFallback(BagToSet(js)) |-> js[j]])
DashFallbackCalls(js) == Len(SelectSeq(js, LAMBDA j : j.stage = "fallback"))

\* a call suspended at its fallback request has had its primary request
\* answered with a failure, and a completed fetch issued the primary request
\* alone or the primary followed by one fallback request
FallbackFollowsPrimary ==
    /\ \A j \in AtFallback(BagToSet(jobs)) :
          j.primary # NoOutcome /\ ~PrimaryReturns(j.primary)
    /\ (lastFetch.app # "none") =>
          /\ lastFetch.requests \in {<<"primary">>, <<"primary", "fallback">>}
          /\ lastFetch.primary # NoOutcome
          /\ (Len(lastFetch.requests) = 1) <=> (lastFetch.fallback = NoOutcome)

\* a call enters its fallback request in the step that answers its primary
FallbackIssuedAtPrimaryAnswer ==
    /\ (MobileFallbackCalls(jobs') > MobileFallbackCalls(jobs))
          => (lastOp' = "PrimaryResponds")
    /\ (DashFallbackCalls(dashJobs') > DashFallbackCalls(dashJobs))
          => (lastOp' = "DashPrimaryResponds")

\* C23: within one price fetch, on either page, the fallback request is
\* issued only when the primary request completes, and only after it failed:
\* a call is suspended at one request at a time, a call enters its fallback
\* request in the step in which its primary request is answered, and a
\* completed fetch has issued the primary request alone or the primary
\* followed by one fallback request.
C23_PrimaryThenFallbackAtMostTwo ==
    []FallbackFollowsPrimary /\ [][FallbackIssuedAtPrimaryAnswer]_vars

\* a dashboard fetch that went through both requests has completed
C23_Witness ==
    /\ lastFetch.requests = <<"primary", "fallback">>
    /\ lastFetch.app = "dashboard"
    /\ lastFetch.fallback.kind = "ok"

\* the card shows the quote q
CardShows(card, q) == card.price = q.price_usd /\ card.change = q.price_change_24h

\* the object carries a price and a 24h change
IsQuote(q) == ~q.isNull /\ Truthy(q.price_usd) /\ q.price_change_24h.t = "num"

\* the fetch completed last returned a quote, and its card shows that quote
LastArrivalShown ==
    (lastFetch.app = "mobile" /\ IsQuote(lastFetch.result)) =>
        CardShows(mobileDisplay[lastFetch.crypto], lastFetch.result)

\* a card changes only in the step a fetch for its crypto completes
CardsChangeOnArrival ==
    \A c \in DOMAIN mobileDisplay :
        (mobileDisplay'[c] # mobileDisplay[c]) =>
            /\ lastOp' \in {"PrimaryResponds", "FallbackResponds"}
            /\ lastFetch'.crypto = c
            /\ IsQuote(lastFetch'.result)
            /\ CardShows(mobileDisplay'[c], lastFetch'.result)

\* C24: a price response that carries a quote is applied to the card of its
\* crypto whether or not the page has been hidden since the request was
\* issued, and the card of a crypto shows the quote that arrived last for it.
C24_LastArrivalWinsAlsoWhenPaused ==
    []LastArrivalShown /\ [][CardsChangeOnArrival]_vars

\* a second quote for bitcoin has arrived while the page is paused, after
\* an earlier call tree had already gone on to ethereum
C24_Witness ==
    /\ hidden /\ paused
    /\ lastOp = "PrimaryResponds"
    /\ lastFetch.crypto = "bitcoin"
    /\ mobileDisplay["bitcoin"].price = Num(52000)
    /\ mobileDisplay["ethereum"].price = Num(50000)

\* the news requests in flight on the mobile page, and the news timers of
\* the dashboard page
NewsFetching(js) == BagCardinality([j \in {x \in BagToSet(js) : x.news = "fetching"} |-> js[j]])
NewsTimers(ivs) == SelectSeq(ivs, LAMBDA iv : iv.task = "news")

\* C25: pausing (page hidden), resuming (page visible) or rescheduling
\* (saving the update frequency) the price task leaves the news task alone:
\* no news request is started, and the news timers and what the news
\* containers show stay as they are.
C25_PriceTaskLeavesNewsAlone ==
    [][(lastOp' \in {"PageHidden", "PageVisible", "SaveSettings"}) =>
          (/\ NewsFetching(jobs') = NewsFetching(jobs)
           /\ mobileNews' = mobileNews
           /\ NewsTimers(dashIntervals') = NewsTimers(dashIntervals)
           /\ dashNews' = dashNews)]_vars

\* the lines of the text handed to displayDetailedAnalysisResults
AnalysisLines == Split(detailedAnalysis.text, "nl")

\* a second-level heading line: two # and no third
SecondLevelHeading(line) == StartsWithHashes(line) /\ ~(Len(line) >= 3 /\ line[3] = "#")

\* C26: a text with k >= 1 second-level heading lines gives k sections, the
\* i-th titled with the text of the i-th second-level heading line; no other
\* line, a third-level heading line included, opens a section.
C26_OneSectionPerSecondLevelHeading ==
    LET headings == SelectSeq(AnalysisLines, SecondLevelHeading)
        sections == detailedAnalysis.sections
    IN  (detailedAnalysis.shown /\ Len(headings) >= 1) =>
            /\ Len(sections) = Len(headings)
            /\ \A i \in 1..Len(headings) : sections[i].title = HeadingTitle(headings[i])

\* the lines after the first line that opens a section, the lines that open
\* sections left out
OpenSectionLines ==
    LET opens == {i \in 1..Len(AnalysisLines) : StartsWithHashes(AnalysisLines[i])}
        first == CHOOSE i \in opens : \A k \in opens : i <= k
    IN  IF opens = {} THEN <<>>
        ELSE SelectSeq(SubSeq(AnalysisLines, first + 1, Len(AnalysisLines)),
                       LAMBDA line : ~StartsWithHashes(line))

\* the place of the first separator of the line (0: none)
FirstColon(line) ==
    LET at == {i \in 1..Len(line) : line[i] = ":"}
    IN  IF at = {} THEN 0 ELSE CHOOSE i \in at : \A k \in at : i <= k

\* a line of the shape label: value-with-currency, read as widely as the
\* code reads it: a separator and a currency sign, wherever they stand
LabelCurrencyLine(line) ==
    /\ FirstColon(line) > 0
    /\ \E i \in 1..Len(line) : line[i] = "$"

\* the metric the claim gives such a line
WholeValueMetric(line) ==
    [label |-> Trim(SubSeq(line, 1, FirstColon(line) - 1)),
     value |-> Trim(SubSeq(line, FirstColon(line) + 1, Len(line)))]

RECURSIVE AllMetrics(_, _)
AllMetrics(sections, k) ==
    IF k > Len(sections) THEN <<>>
    ELSE sections[k].metrics \o AllMetrics(sections, k + 1)

RECURSIVE AllContent(_, _)
AllContent(sections, k) ==
    IF k > Len(sections) THEN <<>>
    ELSE sections[k].content \o AllContent(sections, k + 1)

RECURSIVE BodyOf(_, _)
BodyOf(lines, k) ==
    IF k > Len(lines) THEN <<>>
    ELSE lines[k] \o <<"<br>">> \o BodyOf(lines, k + 1)

\* C27: of the lines inside open sections, each line of the shape
\* label: value-with-currency becomes one metric, its label the trimmed text
\* left of the first separator and its value the whole trimmed text right of
\* it, and every other line is appended to the body; the metrics and the
\* bodies of the sections hold these lines in order, each once.
C27_LineIsMetricOrBody ==
    LET metricLines == SelectSeq(OpenSectionLines, LabelCurrencyLine)
        bodyLines == SelectSeq(OpenSectionLines, LAMBDA line : ~LabelCurrencyLine(line))
        sections == detailedAnalysis.sections
    IN  (detailedAnalysis.shown /\ OpenSectionLines # <<>>) =>
            /\ AllMetrics(sections, 1) =
                  [i \in 1..Len(metricLines) |-> WholeValueMetric(metricLines[i])]
            /\ AllContent(sections, 1) = BodyOf(bodyLines, 1)

\* C28: once every analysis request issued has been answered, and the one
\* issued last was answered with an analysis, the analysis retained for
\* export and the analysis displayed are the one of the request issued last.
C28_LatestRequestRetained ==
    (issued > 0 /\ analysisJobs = <<>> /\ issued \in displayed) =>
        /\ ExportResults.request = issued
        /\ analysisResults.request = issued

\* the flag is set exactly while one loadNews call is in flight
LoadingWhileOneCall == Len(newsJobs) <= 1 /\ (isLoading <=> Len(newsJobs) = 1)

\* while the flag is set no step starts a request, and the step that ends a
\* call, with the news of the answer, with the sample after a response that
\* is not ok, or with the sample after an error, clears the flag
GuardedAndReset ==
    /\ isLoading => Len(newsJobs') <= Len(newsJobs)
    /\ (lastOp' \in {"NewsFetchFailed", "NewsBodyFailed", "NewsBodyParsed"}) => ~isLoading'

RECURSIVE IsSubSequence(_, _)
IsSubSequence(a, b) ==
    IF a = <<>> THEN TRUE
    ELSE IF b = <<>> THEN FALSE
    ELSE IF Head(a) = Head(b) THEN IsSubSequence(Tail(a), Tail(b))
    ELSE IsSubSequence(a, Tail(b))

Categories == {"bitcoin", "ethereum", "defi", "regulation", "technology", "general"}
Sentiments == {"positive", "negative", "neutral"}

\* C30: on the news page filteredNews is a sub-sequence of newsData (the
\* same items in the same relative order), and every item of newsData has
\* one of the six categories and one of the three sentiments, whatever
\* loads, refreshes, filter changes and filter resets have happened.
C30_FilteredWithinNewsData ==
    /\ IsSubSequence(filteredNews, newsData)
    /\ \A i \in 1..Len(newsData) :
          newsData[i].category \in Categories /\ newsData[i].sentiment \in Sentiments

\* a filter change has left some of the loaded items out and kept several
C30_Witness ==
    /\ lastOp = "ApplyFilters"
    /\ Len(filteredNews) >= 2
    /\ Len(filteredNews) < Len(newsData)
    /\ newsData # SampleNews

====
